---- MODULE Spec2Model ----
(***************************************************************************)
(* Verification model of the evorl hybrid EC/RL training engine:           *)
(*   - the per-iteration workflow drivers (ERL-Origin, ERL-GA, ERL-ES,     *)
(*     CEMRL-OpenES): ERLWorkflow.step and its siblings;                   *)
(*   - the compaction of fixed-horizon rollouts into the replay buffer;    *)
(*   - the environment wrappers (episode bookkeeping and autoreset).       *)
(* Network parameters are abstracted to tagged records that identify which *)
(* individual / which version of an RL actor a tensor holds.               *)
(***************************************************************************)
EXTENDS Integers, Sequences, FiniteSets, TLC

VARIABLES
    config,               \* the workflow's configuration (fixed after build)
    key,                  \* state.key
    metrics,              \* state.metrics (WorkflowMetric)
    agent_state,          \* state.agent_state
    opt_state,            \* state.opt_state
    ec_opt_state,         \* state.ec_opt_state
    replay_buffer_state,  \* state.replay_buffer_state
    train_metrics,        \* the train metrics returned by the last step
    trace,                \* history of the last step: phase log, what the update saw
    nsteps,               \* number of step calls made in this run
    ins,                  \* rollout insertion: the buffer, the rollout last inserted
    env_kind,             \* which wrapper stack the environment is built with
    env,                  \* the EnvState held by the caller of the environment
    env_hist,             \* history of the environment: last step, reset keys used
    learn,                \* the learn loop: position, loop index, last evaluation, checkpoint
    call                  \* a direct call of a library function: arguments and result

wfVars == <<config, key, metrics, agent_state, opt_state, ec_opt_state,
            replay_buffer_state, train_metrics, trace, nsteps>>

envVars == <<env_kind, env, env_hist>>

vars == <<wfVars, ins, envVars, learn, call>>

-----------------------------------------------------------------------------
(* Bounds of the model *)

MaxIters == 3

MaxInserts == 2

MaxEnvSteps == 4

MaxRandom == 3

MaxCalls == 2

(* Configuration values used by the model *)

pop_size == 3

num_rl_agents == 2

num_elites == 2

num_envs == 1

episodes_for_fitness == 1

rollout_episodes == 1

max_episode_steps == 2

replay_buffer_capacity == 10

\* min_sample_timesteps = sample_batch_size = config.batch_size
batch_size == 9

actor_update_interval == 2

rl_updates_frac_num == 1

rl_updates_frac_den == 2

rl_updates_per_iter == 1

Variants == {"origin", "ga", "es", "cemrl"}

WarmupChoices == {0, 2}

IntervalChoices == 1 .. 2

FitnessValues == 0 .. 1

-----------------------------------------------------------------------------
(* Helpers *)

\* jnp.uint32 values are kept as two 16-bit halves, hi * 2^16 + lo, so that
\* the 32-bit wrap-around of the counters is computed exactly
Half == 65536

\* jnp.uint32(n), for a natural number n below 2^31
U32(n) == [hi |-> (n \div Half) % Half, lo |-> n % Half]

\* uint32 addition (wraps modulo 2^32)
U32Plus(x, y) ==
    LET lo == x.lo + y.lo
        hi == x.hi + y.hi + (lo \div Half)
    IN  [hi |-> hi % Half, lo |-> lo % Half]

U32Lt(x, y) == x.hi < y.hi \/ (x.hi = y.hi /\ x.lo < y.lo)

U32Le(x, y) == x = y \/ U32Lt(x, y)

\* x % k for a small positive k
U32Mod(x, k) == ((x.hi % k) * (Half % k) + (x.lo % k)) % k

\* uint32 subtraction (wraps modulo 2^32)
U32Minus(x, y) ==
    LET lo == x.lo - y.lo
        borrow == IF lo < 0 THEN 1 ELSE 0
    IN  [hi |-> (x.hi - y.hi - borrow + 2 * Half) % Half, lo |-> (lo + Half) % Half]

\* math.ceil(x / d) for a uint32 x and a small positive d
U32CeilDiv(x, d) ==
    LET rest == (x.hi % d) * Half + x.lo
        q    == [hi |-> x.hi \div d, lo |-> rest \div d]
    IN  IF rest % d = 0 THEN q ELSE U32Plus(q, U32(1))

\* the value of x as a number (x below 2^31)
ToNat(x) == x.hi * Half + x.lo

Min(a, b) == IF a <= b THEN a ELSE b

RECURSIVE SumSeq(_)
SumSeq(s) == IF s = <<>> THEN 0 ELSE Head(s) + SumSeq(Tail(s))

Prefix(s, n) == SubSeq(s, 1, n)

\* an abstract parameter tensor: which individual it is
P(kind, a, b, c) == [kind |-> kind, a |-> a, b |-> b, c |-> c]

\* jnp.argsort: ascending, stable
argsort(f) ==
    LET pos(i) == Cardinality({j \in 1 .. Len(f) :
                      f[j] < f[i] \/ (f[j] = f[i] /\ j < i)}) + 1
    IN  [p \in 1 .. Len(f) |-> CHOOSE i \in 1 .. Len(f) : pos(i) = p]

\* descending stable order (argsort of the negated fitnesses)
argsort_desc(f) == argsort([i \in 1 .. Len(f) |-> 0 - f[i]])

-----------------------------------------------------------------------------
(* Replay buffer: a ring of capacity C tracked by (size, write index)       *)

NoItem == [it |-> 0, src |-> "none", t |-> 0, col |-> 0]

Transition(it, src, t, col) == [it |-> it, src |-> src, t |-> t, col |-> col]

EmptyBuffer ==
    [data |-> [i \in 0 .. (replay_buffer_capacity - 1) |-> NoItem],
     buffer_size |-> 0,
     current_index |-> 0]

RECURSIVE BufferAdd(_, _)
BufferAdd(rb, items) ==
    IF items = <<>> THEN rb
    ELSE CHOOSE res \in
            {BufferAdd(next, rest) :
                next \in {[data |-> [rb.data EXCEPT ![rb.current_index] = Head(items)],
                           buffer_size |-> Min(rb.buffer_size + 1, replay_buffer_capacity),
                           current_index |-> (rb.current_index + 1) % replay_buffer_capacity]},
                rest \in {Tail(items)}} : TRUE

BufferItems(rb) == {rb.data[i] : i \in 0 .. (replay_buffer_capacity - 1)} \ {NoItem}

-----------------------------------------------------------------------------
(* Rollouts of the episode collector, as seen by the workflow: a trajectory *)
(* [T, B] of transitions and the episode length of every column.           *)

Horizon == episodes_for_fitness * max_episode_steps

\* the [T, cols] trajectory of one rollout of iteration it
Trajectory(it, src, cols) ==
    [t \in 1 .. Horizon |-> [i \in 1 .. cols |-> Transition(it, src, t, i)]]

\* episode lengths the collector may report for cols columns
LengthProfiles(cols) ==
    {[i \in 1 .. cols |-> Horizon],
     [i \in 1 .. cols |-> IF i = 1 THEN 1 ELSE Horizon]}

RECURSIVE concat_valid_from(_, _, _)
concat_valid_from(x, episode_lengths, i) ==
    IF i > Len(episode_lengths) THEN <<>>
    ELSE [t \in 1 .. episode_lengths[i] |-> x[t][i]]
         \o concat_valid_from(x, episode_lengths, i + 1)

\* concat_valid: jnp.concatenate([x[:t, i] for i, t in enumerate(episode_lengths)])
concat_valid(x, episode_lengths) == concat_valid_from(x, episode_lengths, 1)

_add_to_replay_buffer(rb, trajectory, episode_lengths) ==
    BufferAdd(rb, concat_valid(trajectory, episode_lengths))

\* the dones [T, cols] of an episodic rollout whose column i ends at lengths[i]
\* (autoreset disabled: a finished column repeats its terminal state)
DonesOf(lengths) ==
    [t \in 1 .. Horizon |-> [i \in 1 .. Len(lengths) |->
        IF t >= lengths[i] THEN 1 ELSE 0]]

\* (1 - dones[:-1]).sum(axis=0) + 1
compute_episode_length(dones) ==
    [i \in 1 .. Len(dones[1]) |->
        SumSeq([t \in 1 .. (Len(dones) - 1) |-> 1 - dones[t][i]]) + 1]

\* shift along the time axis, the first rows filled with zeros
right_shift_with_padding(x, shift) ==
    [t \in 1 .. Len(x) |->
        IF t <= shift THEN [i \in 1 .. Len(x[1]) |-> 0] ELSE x[t - shift]]

logical_not(x) == [t \in 1 .. Len(x) |-> [i \in 1 .. Len(x[1]) |-> x[t][i] = 0]]

\* variant of cemrl_mask that forgets the shift
cemrl_mask_unshifted(dones) == logical_not(dones)

\* mask = jnp.logical_not(right_shift_with_padding(trajectory.dones, 1))
cemrl_mask(dones) == logical_not(right_shift_with_padding(dones, 1))

\* jax.lax.collapse(x, 0, 2): [T, cols] to [T * cols], row-major
collapse(x) ==
    [k \in 1 .. (Len(x) * Len(x[1])) |->
        x[((k - 1) \div Len(x[1])) + 1][((k - 1) % Len(x[1])) + 1]]

RECURSIVE Masked(_, _)
Masked(batch, mask) ==
    IF batch = <<>> THEN <<>>
    ELSE (IF Head(mask) THEN <<Head(batch)>> ELSE <<>>)
         \o Masked(Tail(batch), Tail(mask))

\* ReplayBuffer.add(state, batch, mask): appends the flagged elements in order
ReplayBuffer_add(rb, batch, mask) == BufferAdd(rb, Masked(batch, mask))

\* the masked insert of CEMRLOpenESWorkflow.step
cemrl_add_to_replay_buffer(rb, trajectory, dones) ==
    CHOOSE res \in {ReplayBuffer_add(rb, xs, mask) :
                        xs \in {collapse(trajectory)},
                        mask \in {collapse(cemrl_mask(dones))}} : TRUE

-----------------------------------------------------------------------------
(* Environment wrappers                                                    *)

EnvActions == {0, 1}

Rewards == {0, 1}

\* jax.random.split(key): PRNG keys are the path of splits from the root key
split(k) == <<Append(k, 0), Append(k, 1)>>

ZeroObs == [ep |-> <<>>, t |-> 0, a |-> 0]

\* the observation of the wrapped env: which episode, which time, last action
Obs(ep, t, a) == [ep |-> ep, t |-> t, a |-> a]

\* the wrapped env's reset(key)
inner_reset(k) ==
    [env_state |-> [ep |-> k, t |-> 0],
     obs |-> Obs(k, 0, 0 - 1),
     reward |-> 0,
     done |-> 0,
     info |-> [steps |-> 0, termination |-> 0, truncation |-> 0, ori_obs |-> ZeroObs],
     internal |-> [reset_key |-> <<>>]]

\* the wrapped env's step(state, action): it advances the simulation and
\* reports the reward r and the termination flag d
inner_step(state, action, r, d) ==
    [state EXCEPT
        !.env_state = [ep |-> state.env_state.ep, t |-> state.env_state.t + 1],
        !.obs = Obs(state.env_state.ep, state.env_state.t + 1, action),
        !.reward = r,
        !.done = d]

\* EpisodeWrapper.reset
EpisodeWrapper_reset(k) ==
    [inner_reset(k) EXCEPT
        !.info = [steps |-> 0, termination |-> 0, truncation |-> 0, ori_obs |-> ZeroObs]]

\* variant of EpisodeWrapper__step that flags truncation at the step limit
\* even when the wrapped env terminated on that step
EpisodeWrapper__step_truncate_always(state, action, r, d) ==
    LET prev_done == state.done
        st    == inner_step(state, action, r, d)
        steps == state.info.steps * (1 - prev_done) + 1
        done  == IF steps >= max_episode_steps THEN 1 ELSE st.done
    IN  [st EXCEPT
            !.done = done,
            !.info = [steps |-> steps,
                      termination |-> st.done,
                      truncation |-> IF steps >= max_episode_steps THEN 1 ELSE 0,
                      ori_obs |-> st.obs]]

\* EpisodeWrapper._step
EpisodeWrapper__step(state, action, r, d) ==
    LET prev_done == state.done
        st    == inner_step(state, action, r, d)
        steps == state.info.steps * (1 - prev_done) + 1
        done  == IF steps >= max_episode_steps THEN 1 ELSE st.done
    IN  [st EXCEPT
            !.done = done,
            !.info = [steps |-> steps,
                      termination |-> st.done,
                      truncation |-> IF steps >= max_episode_steps
                                     THEN 1 - st.done ELSE 0,
                      ori_obs |-> st.obs]]

\* OneEpisodeWrapper._dummy_step: state.replace()
OneEpisodeWrapper__dummy_step(state, action) == state

\* variant of OneEpisodeWrapper_step that keeps simulating after done
OneEpisodeWrapper_step_always(state, action, r, d) ==
    EpisodeWrapper__step(state, action, r, d)

\* OneEpisodeWrapper.step: lax.cond(state.done, _dummy_step, _step, state, action)
OneEpisodeWrapper_step(state, action, r, d) ==
    IF state.done = 1 THEN OneEpisodeWrapper__dummy_step(state, action)
    ELSE EpisodeWrapper__step(state, action, r, d)

\* VmapAutoResetWrapper.reset, one lane: reset_key, key = rng_split(key)
VmapAutoResetWrapper_reset(k) ==
    [EpisodeWrapper_reset(split(k)[2]) EXCEPT !.internal = [reset_key |-> split(k)[1]]]

\* variant of _auto_reset that resets with the stored key and keeps it
VmapAutoResetWrapper__auto_reset_same_key(state) ==
    LET reset_state == EpisodeWrapper_reset(state.internal.reset_key)
    IN  [state EXCEPT !.env_state = reset_state.env_state, !.obs = reset_state.obs]

\* VmapAutoResetWrapper._auto_reset
VmapAutoResetWrapper__auto_reset(state) ==
    LET new_key     == split(state.internal.reset_key)[1]
        reset_key   == split(state.internal.reset_key)[2]
        reset_state == EpisodeWrapper_reset(reset_key)
    IN  [state EXCEPT
            !.env_state = reset_state.env_state,
            !.obs = reset_state.obs,
            !.internal = [reset_key |-> new_key]]

\* VmapAutoResetWrapper._maybe_reset
VmapAutoResetWrapper__maybe_reset(state) ==
    IF state.done = 1 THEN VmapAutoResetWrapper__auto_reset(state) ELSE state

\* VmapAutoResetWrapper.step, one lane
VmapAutoResetWrapper_step(state, action, r, d) ==
    VmapAutoResetWrapper__maybe_reset(EpisodeWrapper__step(state, action, r, d))

\* FastVmapAutoResetWrapper.reset, one lane
FastVmapAutoResetWrapper_reset(k) ==
    LET state == EpisodeWrapper_reset(k)
    IN  [state EXCEPT !.internal = [first_env_state |-> state.env_state,
                                    first_obs |-> state.obs]]

\* variant of FastVmapAutoResetWrapper_step that restores the obs only
FastVmapAutoResetWrapper_step_obs_only(state, action, r, d) ==
    LET st == EpisodeWrapper__step(state, action, r, d)
    IN  [st EXCEPT !.obs = IF st.done = 1 THEN st.internal.first_obs ELSE st.obs]

\* FastVmapAutoResetWrapper.step, one lane: where_done(first, stepped)
FastVmapAutoResetWrapper_step(state, action, r, d) ==
    LET st == EpisodeWrapper__step(state, action, r, d)
    IN  [st EXCEPT
            !.env_state = IF st.done = 1 THEN st.internal.first_env_state
                          ELSE st.env_state,
            !.obs = IF st.done = 1 THEN st.internal.first_obs ELSE st.obs]

\* info with the autoreset flag set (state.info.autoreset = flag)
WithAutoreset(info, flag) ==
    [steps |-> info.steps, termination |-> info.termination,
     truncation |-> info.truncation, ori_obs |-> info.ori_obs,
     autoreset |-> flag]

\* VmapEnvPoolAutoResetWrapper.reset, one lane: reset_key, key = rng_split(key);
\* info.autoreset = zeros_like(done)
VmapEnvPoolAutoResetWrapper_reset(k) ==
    LET state == EpisodeWrapper_reset(split(k)[2])
    IN  [state EXCEPT
            !.info = WithAutoreset(state.info, 0),
            !.internal = [reset_key |-> split(k)[1]]]

\* VmapEnvPoolAutoResetWrapper.step, one lane:
\* tree_map(_where_done, reset_state, new_state) with done = autoreset
VmapEnvPoolAutoResetWrapper_step(state, action, r, d) ==
    LET autoreset == state.done
        reset_state == VmapEnvPoolAutoResetWrapper_reset(state.internal.reset_key)
        stepped == EpisodeWrapper__step(state, action, r, d)
        new_state == [stepped EXCEPT !.info = WithAutoreset(stepped.info, autoreset)]
    IN  IF autoreset = 1 THEN reset_state ELSE new_state

\* EnvPool side: the state is batched over the lanes of the pool
Lanes == 1 .. 2

\* what the pool may return for one lane in one step
PoolOutputs ==
    {[obs |-> 1, reward |-> 1, terminated |-> 0, truncated |-> 0],
     [obs |-> 2, reward |-> 2, terminated |-> 1, truncated |-> 0],
     [obs |-> 3, reward |-> 3, terminated |-> 0, truncated |-> 1]}

\* GymAdapter.reset
GymAdapter_reset ==
    [env_state |-> "None",
     obs |-> [i \in Lanes |-> 0],
     reward |-> [i \in Lanes |-> 0],
     done |-> [i \in Lanes |-> 0],
     info |-> [termination |-> [i \in Lanes |-> 0],
               truncation |-> [i \in Lanes |-> 0],
               last_obs |-> [i \in Lanes |-> 0],
               episode_return |-> [i \in Lanes |-> 0]]]

\* GymAdapter.step; out[i] is what the pool returns for lane i
GymAdapter_step(state, action, out) ==
    LET episode_return ==
            [i \in Lanes |-> state.info.episode_return[i] * (1 - state.done[i])]
    IN  [state EXCEPT
            !.obs = [i \in Lanes |-> out[i].obs],
            !.reward = [i \in Lanes |-> out[i].reward],
            !.done = [i \in Lanes |->
                        IF out[i].terminated = 1 \/ out[i].truncated = 1 THEN 1 ELSE 0],
            !.info = [termination |-> [i \in Lanes |-> out[i].terminated],
                      truncation |-> [i \in Lanes |-> out[i].truncated],
                      last_obs |-> state.obs,
                      episode_return |->
                          [i \in Lanes |-> episode_return[i] + out[i].reward]]]

\* where_done of envpool.OneEpisodeWrapper.step, on one leaf
where_done(done, x, y) == [i \in Lanes |-> IF done[i] = 1 THEN x[i] ELSE y[i]]

\* envpool.OneEpisodeWrapper.step: tree_map(where_done, state, env.step(state, action))
EnvPoolOneEpisodeWrapper_step(state, action, out) ==
    LET new == GymAdapter_step(state, action, out)
        w(x, y) == where_done(state.done, x, y)
    IN  [env_state |-> "None",
         obs |-> w(state.obs, new.obs),
         reward |-> w(state.reward, new.reward),
         done |-> w(state.done, new.done),
         info |-> [termination |-> w(state.info.termination, new.info.termination),
                   truncation |-> w(state.info.truncation, new.info.truncation),
                   last_obs |-> w(state.info.last_obs, new.info.last_obs),
                   episode_return |->
                       w(state.info.episode_return, new.info.episode_return)]]

-----------------------------------------------------------------------------
(* EC optimizers (ask / tell), modelled from their contract                  *)

\* GA / ERLGA ask: the stored population
ga_ask(ec) == ec.pop

\* GA tell: rank by fitness, keep the top num_elites, fill the rest with offspring
ga_tell(ec, pop, fitnesses, gen) ==
    LET order == argsort_desc(fitnesses)
    IN  [ec EXCEPT !.pop = [i \in 1 .. pop_size |->
                              IF i <= num_elites THEN pop[order[i]]
                              ELSE P("ec", gen, i, 0)]]

\* ERLGA tell_external: pop and external_pop are ranked together
ga_tell_external(ec, fitnesses, gen) ==
    LET all   == ec.pop \o ec.external_pop
        order == argsort_desc(fitnesses)
    IN  [ec EXCEPT !.pop = [i \in 1 .. pop_size |->
                              IF i <= num_elites THEN all[order[i]]
                              ELSE P("ec", gen, i, 0)]]

\* the generation of the current mean (number of tells so far)
MeanGen(ec) == ec.mean.a

\* ES ask: pop_size noise rows around the mean
es_ask(ec, gen) ==
    [ec EXCEPT !.noise = [i \in 1 .. pop_size |-> P("noise", gen, i, 0)]]

es_candidates(ec, gen) == [i \in 1 .. pop_size |-> P("cand", gen, i, 0)]

\* ES tell: a new mean
es_tell(ec, fitnesses, gen) == [ec EXCEPT !.mean = P("mean", gen, 0, 0)]

-----------------------------------------------------------------------------
(* TD3 update                                                              *)

RLActor(j, ver) == P("rl", j, ver, 0)

ActorVersion(ast) == ast.params.actor_params[1].b

\* one invocation of _update_fn: actor_update_interval critic steps, one
\* actor step, one Polyak update of both targets
_update_fn(ast, ost) ==
    LET ver == ActorVersion(ast) + 1
        cri == ast.params.critic_params + actor_update_interval
    IN  [agent_state |->
            [ast EXCEPT !.params =
                [actor_params |-> [j \in 1 .. num_rl_agents |-> RLActor(j, ver)],
                 target_actor_params |-> [j \in 1 .. num_rl_agents |-> RLActor(j, ver)],
                 critic_params |-> cri,
                 target_critic_params |-> cri]],
         opt_state |-> [actor |-> ost.actor + 1,
                        critic |-> ost.critic + actor_update_interval]]

\* lax.scan of _sample_and_update_fn, length = num_updates
RECURSIVE _rl_update(_, _, _)
_rl_update(ast, ost, num_updates) ==
    IF num_updates = 0 THEN [agent_state |-> ast, opt_state |-> ost]
    ELSE CHOOSE res \in {_rl_update(r.agent_state, r.opt_state, num_updates - 1) :
                            r \in {_update_fn(ast, ost)}} : TRUE

\* variant of origin_num_updates that divides before rounding up
origin_num_updates_ceil_last(total_timesteps) ==
    (total_timesteps * rl_updates_frac_num
        + rl_updates_frac_den * actor_update_interval - 1)
    \div (rl_updates_frac_den * actor_update_interval)

\* math.ceil(total_timesteps * rl_updates_frac_per_iter) // actor_update_interval
origin_num_updates(total_timesteps) ==
    ((total_timesteps * rl_updates_frac_num + rl_updates_frac_den - 1)
        \div rl_updates_frac_den) \div actor_update_interval

-----------------------------------------------------------------------------
(* RL -> EC injection                                                      *)

\* ERL-Origin: tree_set(pop, rl_actor_params, worst_indices)
origin_rl_injection(ast, ec, fitnesses) ==
    LET worst_indices   == Prefix(argsort(fitnesses), num_rl_agents)
        rl_actor_params == ast.params.actor_params
    IN  [ec EXCEPT !.pop = [i \in 1 .. Len(ec.pop) |->
            IF \E j \in 1 .. num_rl_agents : worst_indices[j] = i
            THEN rl_actor_params[CHOOSE j \in 1 .. num_rl_agents : worst_indices[j] = i]
            ELSE ec.pop[i]]]

\* ERL-GA: the RL actors go to the external slot
ga_rl_injection(ec, ast) == [ec EXCEPT !.external_pop = ast.params.actor_params]

\* ERL-ES: (rl actor - mean) rows are appended to the noise
es_rl_injection(ec, ast) ==
    LET rl_noise == [j \in 1 .. num_rl_agents |->
                        P("diff", j, ast.params.actor_params[j].b, MeanGen(ec))]
    IN  [ec EXCEPT !.noise = ec.noise \o rl_noise]

-----------------------------------------------------------------------------
(* One call of step: the local variables of the call, and its statements   *)
(* in program order.                                                       *)

\* no agent state (None is kept as a negative number)
NoAgentState ==
    [params |-> [actor_params |-> <<>>, target_actor_params |-> <<>>,
                 critic_params |-> 0 - 1, target_critic_params |-> 0 - 1],
     obs_preprocessor_state |-> 0 - 1]

\* variant of origin_pop_agent_state that keeps the critics of the shared agent
origin_pop_agent_state_with_critic(ast, pop_actor_params) ==
    [ast EXCEPT !.params.actor_params = pop_actor_params,
                !.params.target_actor_params = pop_actor_params]

\* ERL-Origin: agent_state.replace(params=TD3NetworkParams(actor_params=pop,
\* target_actor_params=pop, critic_params=None, target_critic_params=None))
origin_pop_agent_state(ast, pop_actor_params) ==
    [ast EXCEPT !.params = [actor_params |-> pop_actor_params,
                            target_actor_params |-> pop_actor_params,
                            critic_params |-> 0 - 1,
                            target_critic_params |-> 0 - 1]]

\* replace_td3_actor_params / erl_replace_td3_actor_params / replace_actor_params:
\* only the actor params are replaced
replace_td3_actor_params(ast, pop_actor_params) ==
    [ast EXCEPT !.params.actor_params = pop_actor_params]

NoInjection ==
    [done |-> FALSE, pop_at |-> <<>>, evaluated |-> <<>>, fitnesses |-> <<>>,
     worst |-> <<>>, rl |-> <<>>, pop_after |-> <<>>]

\* the locals of step on entry
Locals(iterations, in_fitnesses, in_rl_fitnesses, in_ec_lengths, in_rl_lengths) ==
    [variant |-> config.variant,
     iterations |-> iterations,
     gen |-> ToNat(iterations),
     in_fitnesses |-> in_fitnesses,
     in_rl_fitnesses |-> in_rl_fitnesses,
     in_ec_lengths |-> in_ec_lengths,
     in_rl_lengths |-> in_rl_lengths,
     prev_sampled_timesteps |-> metrics.sampled_timesteps,
     agent_state |-> agent_state,
     opt_state |-> opt_state,
     ec_opt_state |-> ec_opt_state,
     replay_buffer_state |-> replay_buffer_state,
     pop_actor_params |-> <<>>,
     pop_agent_state |-> NoAgentState,
     agent_after_ec |-> NoAgentState,
     ec_fitnesses |-> <<>>,
     fitnesses |-> <<>>,
     rl_fitnesses |-> <<>>,
     ec_lengths |-> <<>>,
     rl_lengths |-> <<>>,
     ec_trajectory |-> <<>>,
     rl_trajectory |-> <<>>,
     rl_rolled |-> <<>>,
     rl_metrics |-> "none",
     num_updates |-> 0,
     log |-> <<>>,
     updated |-> FALSE,
     upd_rb |-> EmptyBuffer,
     told |-> [fitnesses |-> <<>>, noise |-> <<>>, external |-> <<>>],
     inj |-> NoInjection]

\* timesteps sampled so far in this call (ec_eval_metrics.episode_lengths.sum() + rl ...)
SampledTimesteps(c) == U32Plus(U32(SumSeq(c.ec_lengths)), U32(SumSeq(c.rl_lengths)))

Logged(c, ph) == [c EXCEPT !.log = Append(c.log, ph)]

\* pop_actor_params = ec_opt_state.pop (ERL-Origin reads the population directly)
PhaseReadPop(c) == [c EXCEPT !.pop_actor_params = c.ec_opt_state.pop]

\* pop_actor_params, ec_opt_state = ec_optimizer.ask(ec_opt_state)
PhaseAsk(c) ==
    IF c.variant = "ga"
    THEN [Logged(c, "ec_ask") EXCEPT !.pop_actor_params = ga_ask(c.ec_opt_state)]
    ELSE [Logged(c, "ec_ask") EXCEPT
            !.pop_actor_params = es_candidates(c.ec_opt_state, c.gen),
            !.ec_opt_state = es_ask(c.ec_opt_state, c.gen)]

\* the EC rollout of pop_actor_params; fitnesses = episode_returns.mean(-1)
PhaseEcRollout(c) ==
    [Logged(c, "ec_rollout") EXCEPT
        !.pop_agent_state =
            IF c.variant = "origin"
            THEN origin_pop_agent_state(c.agent_state, c.pop_actor_params)
            ELSE replace_td3_actor_params(c.agent_state, c.pop_actor_params),
        !.agent_after_ec = c.agent_state,
        !.ec_fitnesses = c.in_fitnesses,
        !.ec_trajectory = Trajectory(c.gen, "ec", pop_size * num_envs),
        !.ec_lengths = c.in_ec_lengths,
        !.fitnesses = c.in_fitnesses]

PhaseEcAppend(c) ==
    [Logged(c, "ec_append") EXCEPT
        !.replay_buffer_state =
            IF c.variant = "cemrl"
            THEN cemrl_add_to_replay_buffer(c.replay_buffer_state, c.ec_trajectory,
                                            DonesOf(c.ec_lengths))
            ELSE _add_to_replay_buffer(c.replay_buffer_state, c.ec_trajectory,
                                       c.ec_lengths)]

\* the RL rollout of the current RL actors
PhaseRlRollout(c) ==
    [Logged(c, "rl_rollout") EXCEPT
        !.rl_trajectory = Trajectory(c.gen, "rl", num_rl_agents * num_envs),
        !.rl_lengths = c.in_rl_lengths,
        !.rl_fitnesses = c.in_rl_fitnesses,
        !.rl_rolled = c.agent_state.params.actor_params]

PhaseRlAppend(c) ==
    [Logged(c, "rl_append") EXCEPT
        !.replay_buffer_state =
            _add_to_replay_buffer(c.replay_buffer_state, c.rl_trajectory, c.rl_lengths)]

\* the number of update invocations of this iteration
NumUpdates(c) ==
    IF c.variant = "origin"
    THEN origin_num_updates(ToNat(U32Plus(c.prev_sampled_timesteps, SampledTimesteps(c))))
    ELSE rl_updates_per_iter

\* td3_metrics, agent_state, opt_state = _rl_update(agent_state, opt_state, replay_buffer_state, ...)
PhaseRlUpdate(c) ==
    CHOOSE res \in
        {[Logged(c, "rl_update") EXCEPT
            !.agent_state = r.agent_state,
            !.opt_state = r.opt_state,
            !.num_updates = NumUpdates(c),
            !.rl_metrics = "td3",
            !.updated = TRUE,
            !.upd_rb = c.replay_buffer_state] :
         r \in {_rl_update(c.agent_state, c.opt_state, NumUpdates(c))}} : TRUE

\* CEMRL-OpenES _dummy_rl_update: DUMMY_TD3_TRAINMETRIC, nothing else changes
PhaseDummyRlUpdate(c) == [c EXCEPT !.rl_metrics = "dummy"]

\* ec_optimizer.tell / _ec_update
PhaseTell(c) ==
    LET ec == IF c.variant \in {"origin", "ga"}
              THEN ga_tell(c.ec_opt_state, c.pop_actor_params, c.fitnesses, c.gen)
              ELSE es_tell(c.ec_opt_state, c.fitnesses, c.gen)
    IN  [Logged(c, "ec_tell") EXCEPT
            !.ec_opt_state = ec,
            !.told = [fitnesses |-> c.fitnesses,
                      noise |-> c.ec_opt_state.noise,
                      external |-> <<>>]]

\* ec_optimizer.tell_external (ERL-GA, inside _tell_with_rl_injection)
PhaseTellExternal(c) ==
    [Logged(c, "ec_tell_external") EXCEPT
        !.ec_opt_state = ga_tell_external(c.ec_opt_state, c.fitnesses, c.gen),
        !.told = [fitnesses |-> c.fitnesses,
                  noise |-> c.ec_opt_state.noise,
                  external |-> c.ec_opt_state.external_pop]]

\* _rl_injection of the variant
PhaseInjection(c) ==
    LET ec == CASE c.variant = "origin" ->
                     origin_rl_injection(c.agent_state, c.ec_opt_state, c.fitnesses)
                [] c.variant = "ga" -> ga_rl_injection(c.ec_opt_state, c.agent_state)
                [] OTHER -> es_rl_injection(c.ec_opt_state, c.agent_state)
    IN  [Logged(c, "injection") EXCEPT
            !.ec_opt_state = ec,
            \* ERL-ES: fitnesses = concat(fitnesses, rl_fitnesses) just before
            !.fitnesses = IF c.variant = "es" THEN c.fitnesses \o c.rl_fitnesses
                          ELSE c.fitnesses,
            !.inj = [done |-> TRUE,
                     pop_at |-> c.ec_opt_state.pop,
                     evaluated |-> c.pop_actor_params,
                     fitnesses |-> c.fitnesses,
                     worst |-> IF c.fitnesses = <<>> THEN <<>>
                               ELSE Prefix(argsort(c.fitnesses), num_rl_agents),
                     rl |-> c.agent_state.params.actor_params,
                     pop_after |-> ec.pop]]

RunPhase(c, ph) ==
    CASE ph = "ec_read_pop"      -> PhaseReadPop(c)
      [] ph = "ec_ask"           -> PhaseAsk(c)
      [] ph = "ec_rollout"       -> PhaseEcRollout(c)
      [] ph = "ec_append"        -> PhaseEcAppend(c)
      [] ph = "rl_rollout"       -> PhaseRlRollout(c)
      [] ph = "rl_append"        -> PhaseRlAppend(c)
      [] ph = "rl_update"        -> PhaseRlUpdate(c)
      [] ph = "rl_dummy_update"  -> PhaseDummyRlUpdate(c)
      [] ph = "ec_tell"          -> PhaseTell(c)
      [] ph = "ec_tell_external" -> PhaseTellExternal(c)
      [] ph = "injection"        -> PhaseInjection(c)

RECURSIVE RunPhases(_, _)
RunPhases(c, phs) ==
    IF phs = <<>> THEN c
    ELSE CHOOSE r \in {RunPhases(d, Tail(phs)) : d \in {RunPhase(c, Head(phs))}} : TRUE

-----------------------------------------------------------------------------
(* The statements of step, per workflow, in the order of the source        *)

\* variant of origin_step_phases without the warm-up test
origin_step_phases_ungated(iterations) ==
    <<"ec_read_pop", "ec_rollout", "ec_append", "ec_tell">>
    \o <<"rl_rollout", "rl_append", "rl_update">>
    \o (IF U32Mod(iterations, config.rl_injection_interval) = 0
        THEN <<"injection">> ELSE <<>>)

\* variant of origin_step_phases whose warm-up test is >= instead of >
origin_step_phases_geq(iterations) ==
    <<"ec_read_pop", "ec_rollout", "ec_append", "ec_tell">>
    \o (IF U32Le(U32(config.warmup_iters), iterations)
        THEN <<"rl_rollout", "rl_append", "rl_update">>
             \o (IF U32Mod(iterations, config.rl_injection_interval) = 0
                 THEN <<"injection">> ELSE <<>>)
        ELSE <<>>)

\* ERLWorkflow.step (ERL-Origin)
origin_step_phases(iterations) ==
    <<"ec_read_pop", "ec_rollout", "ec_append", "ec_tell">>
    \o (IF U32Lt(U32(config.warmup_iters), iterations)
        THEN <<"rl_rollout", "rl_append", "rl_update">>
             \o (IF U32Mod(iterations, config.rl_injection_interval) = 0
                 THEN <<"injection">> ELSE <<>>)
        ELSE <<>>)

\* variant of ga_step_phases that updates before the RL rollout is stored
ga_step_phases_early_update(iterations) ==
    <<"ec_ask", "ec_rollout", "ec_append", "rl_rollout", "rl_update", "rl_append">>
    \o (IF U32Mod(iterations, config.rl_injection_interval) = 0
        THEN <<"injection", "ec_tell_external">>
        ELSE <<"ec_tell">>)

\* variant of ga_step_phases whose injection test is off by one iteration
ga_step_phases_shifted(iterations) ==
    <<"ec_ask", "ec_rollout", "ec_append", "rl_rollout", "rl_append", "rl_update">>
    \o (IF U32Mod(U32Plus(iterations, U32(1)), config.rl_injection_interval) = 0
        THEN <<"injection", "ec_tell_external">>
        ELSE <<"ec_tell">>)

\* ERLGAWorkflow.step
ga_step_phases(iterations) ==
    <<"ec_ask", "ec_rollout", "ec_append", "rl_rollout", "rl_append", "rl_update">>
    \o (IF U32Mod(iterations, config.rl_injection_interval) = 0
        THEN <<"injection", "ec_tell_external">>
        ELSE <<"ec_tell">>)

\* variant of es_step_phases that tells the optimizer before the injection
es_step_phases_tell_first(iterations) ==
    <<"ec_ask", "ec_rollout", "ec_append", "rl_rollout", "rl_append",
      "ec_tell", "injection", "rl_update">>

\* variant of es_step_phases that updates the RL agent before the injection
es_step_phases_update_first(iterations) ==
    <<"ec_ask", "ec_rollout", "ec_append", "rl_rollout", "rl_append",
      "rl_update", "injection", "ec_tell">>

\* ERLESWorkflow.step
es_step_phases(iterations) ==
    <<"ec_ask", "ec_rollout", "ec_append", "rl_rollout", "rl_append",
      "injection", "ec_tell", "rl_update">>

\* variant of cemrl_step_phases that tells the optimizer before the rollout
cemrl_step_phases_tell_early(iterations) ==
    <<"ec_ask", "ec_tell">>
    \o (IF U32Lt(U32(config.warmup_iters), iterations)
        THEN <<"rl_update">> ELSE <<"rl_dummy_update">>)
    \o <<"ec_rollout", "ec_append">>

\* CEMRLOpenESWorkflow.step
cemrl_step_phases(iterations) ==
    <<"ec_ask">>
    \o (IF U32Lt(U32(config.warmup_iters), iterations)
        THEN <<"rl_update">> ELSE <<"rl_dummy_update">>)
    \o <<"ec_rollout", "ec_append", "ec_tell">>

-----------------------------------------------------------------------------
(* State                                                                   *)

WorkflowMetric ==
    [sampled_timesteps |-> U32(0), sampled_episodes |-> U32(0),
     rl_sampled_timesteps |-> U32(0), iterations |-> U32(0)]

InitAgentState ==
    [params |->
        [actor_params |-> [j \in 1 .. num_rl_agents |-> RLActor(j, 0)],
         target_actor_params |-> [j \in 1 .. num_rl_agents |-> RLActor(j, 0)],
         critic_params |-> 0,
         target_critic_params |-> 0],
     obs_preprocessor_state |-> 0]

InitEcOptState(variant) ==
    IF variant \in {"origin", "ga"}
    THEN [pop |-> [i \in 1 .. pop_size |-> P("ec", 0, i, 0)],
          external_pop |-> <<>>, mean |-> P("none", 0, 0, 0), noise |-> <<>>]
    ELSE [pop |-> <<>>, external_pop |-> <<>>,
          mean |-> P("mean", 0, 0, 0), noise |-> <<>>]

NoTrace ==
    [log |-> <<>>, updated |-> FALSE, upd_rb |-> EmptyBuffer,
     told |-> [fitnesses |-> <<>>, noise |-> <<>>, external |-> <<>>],
     rl_rolled |-> <<>>, inj |-> NoInjection,
     ec_lengths |-> <<>>, rl_lengths |-> <<>>, rl_fitnesses |-> <<>>,
     pop_actor_params |-> <<>>, pop_agent_state |-> NoAgentState,
     agent_after_ec |-> NoAgentState, ec_fitnesses |-> <<>>]

\* the configurations; an option that a workflow's step never reads is kept
\* at one value (ERL-GA and ERL-ES do not read warmup_iters, ERL-ES and
\* CEMRL-OpenES do not read rl_injection_interval)
Configs ==
    {cf \in [variant : Variants, warmup_iters : WarmupChoices,
             rl_injection_interval : IntervalChoices] :
        /\ cf.variant \in {"ga", "es"} => cf.warmup_iters = 2
        /\ cf.variant = "es" => cf.rl_injection_interval = 2
        /\ cf.variant = "cemrl" => cf.rl_injection_interval = 1}

\* the counters of a state restored from a checkpoint late in a long run of
\* a workflow with a fixed number of updates per iteration: 4294 iterations
\* of about 10^6 timesteps each, sampled_timesteps a few steps below 2^32
LongRunMetric ==
    [sampled_timesteps |-> [hi |-> Half - 1, lo |-> Half - 8],
     sampled_episodes |-> U32(4294 * (episodes_for_fitness * pop_size
                                       + num_rl_agents * rollout_episodes)),
     rl_sampled_timesteps |-> [hi |-> 26214, lo |-> 0],
     iterations |-> U32(4294)]

\* the state returned by setup (random_timesteps = 0), or, for the two
\* ES-based workflows, a state of a long run restored without its buffer
NoInsert ==
    [mode |-> "none", rb |-> EmptyBuffer, before |-> EmptyBuffer,
     dones |-> <<>>, count |-> 0]

NoEnv == [done |-> 0]

NoHist == [acted |-> FALSE, prev |-> NoEnv, action |-> 0, resets |-> <<>>, n |-> 0]

\* no library function is being called
NoCall == [op |-> "none", n |-> 0]

\* learn has not been called
NoLearn ==
    [pc |-> "idle", i |-> U32(0), stop |-> U32(0), evals |-> 0,
     eval_metrics |-> "none", saves |-> 0, saved |-> "none", calls |-> 0]

\* no rollout insertion and no environment is being exercised
RestIdle ==
    /\ ins = NoInsert
    /\ env_kind = "none"
    /\ env = NoEnv
    /\ env_hist = NoHist
    /\ learn = NoLearn
    /\ call = NoCall

Init ==
    /\ RestIdle
    /\ config \in Configs
    /\ key = <<>>
    /\ \/ metrics = WorkflowMetric
       \/ /\ config.variant \in {"es", "cemrl"}
          /\ metrics = LongRunMetric
    /\ nsteps = 0
    /\ agent_state = InitAgentState
    /\ opt_state = [actor |-> 0, critic |-> 0]
    /\ ec_opt_state = InitEcOptState(config.variant)
    /\ replay_buffer_state = EmptyBuffer
    /\ train_metrics = [rl_metrics |-> "none", num_updates_per_iter |-> 0, rb_size |-> 0]
    /\ trace = NoTrace

\* the new state and train metrics of a step whose statements ran as c
StepResult(c) ==
    LET rolled_rl == c.rl_trajectory # <<>>
        sampled_episodes ==
            U32(episodes_for_fitness * pop_size
                + (IF rolled_rl THEN num_rl_agents * rollout_episodes ELSE 0))
        rl_sampled_timesteps ==
            IF c.variant = "cemrl" THEN U32(0) ELSE U32(SumSeq(c.rl_lengths))
    IN  /\ key' = Append(key, 0)
        /\ metrics' =
              [sampled_timesteps |-> U32Plus(metrics.sampled_timesteps, SampledTimesteps(c)),
               sampled_episodes |-> U32Plus(metrics.sampled_episodes, sampled_episodes),
               rl_sampled_timesteps |->
                    U32Plus(metrics.rl_sampled_timesteps, rl_sampled_timesteps),
               iterations |-> c.iterations]
        /\ agent_state' = c.agent_state
        /\ opt_state' = c.opt_state
        /\ ec_opt_state' = c.ec_opt_state
        /\ replay_buffer_state' = c.replay_buffer_state
        /\ train_metrics' = [rl_metrics |-> c.rl_metrics,
                             num_updates_per_iter |-> c.num_updates,
                             rb_size |-> c.replay_buffer_state.buffer_size]
        /\ trace' = [log |-> c.log, updated |-> c.updated, upd_rb |-> c.upd_rb,
                     told |-> c.told, rl_rolled |-> c.rl_rolled, inj |-> c.inj,
                     ec_lengths |-> c.ec_lengths, rl_lengths |-> c.rl_lengths,
                     rl_fitnesses |-> c.rl_fitnesses,
                     pop_actor_params |-> c.pop_actor_params,
                     pop_agent_state |-> c.pop_agent_state,
                     agent_after_ec |-> c.agent_after_ec,
                     ec_fitnesses |-> c.ec_fitnesses]
        /\ nsteps' = nsteps + 1
        /\ UNCHANGED <<config, ins, envVars>>

\* what the RL rollout of a step may return: episode lengths (none when the
\* step makes no RL rollout) and mean returns (read into the state by ERL-ES only)
RlLengths(phs) ==
    IF \E n \in 1 .. Len(phs) : phs[n] = "rl_rollout"
    THEN LengthProfiles(num_rl_agents * num_envs)
    ELSE {[i \in 1 .. num_rl_agents * num_envs |-> Horizon]}

RlReturns(variant) ==
    IF variant = "es"
    THEN {[j \in 1 .. num_rl_agents |-> 0], [j \in 1 .. num_rl_agents |-> j % 2]}
    ELSE {[j \in 1 .. num_rl_agents |-> 0]}

\* the mean returns the EC rollout may report: every vector where the optimizer
\* ranks the members (GA), two vectors where it only moves a mean (ES, OpenES)
PopReturns(variant) ==
    IF variant \in {"origin", "ga"} THEN [1 .. pop_size -> FitnessValues]
    ELSE {[i \in 1 .. pop_size |-> 0], [i \in 1 .. pop_size |-> i % 2]}

\* one call of step of the workflow 'variant', whose statements are phases(iterations)
step_phases(variant, iterations) ==
    CASE variant = "origin" -> origin_step_phases(iterations)
      [] variant = "ga"     -> ga_step_phases(iterations)
      [] variant = "es"     -> es_step_phases(iterations)
      [] variant = "cemrl"  -> cemrl_step_phases(iterations)

\* one call of step whose rollouts return the given fitnesses and lengths
StepWith(variant, in_fitnesses, in_rl_fitnesses, in_ec_lengths, in_rl_lengths) ==
    LET iterations == U32Plus(metrics.iterations, U32(1))
    IN  \E c0 \in {Locals(iterations, in_fitnesses, in_rl_fitnesses,
                           in_ec_lengths, in_rl_lengths)} :
        \E c \in {RunPhases(c0, step_phases(variant, iterations))} :
           StepResult(c)

StepOf(variant) ==
    /\ config.variant = variant
    /\ nsteps < MaxIters
    /\ \E in_fitnesses \in PopReturns(variant),
          in_rl_fitnesses \in RlReturns(variant),
          in_ec_lengths \in LengthProfiles(pop_size * num_envs),
          in_rl_lengths \in RlLengths(step_phases(variant,
                                       U32Plus(metrics.iterations, U32(1)))) :
         StepWith(variant, in_fitnesses, in_rl_fitnesses, in_ec_lengths, in_rl_lengths)

StepOrigin == StepOf("origin") /\ UNCHANGED <<learn, call>>

StepGA == StepOf("ga") /\ UNCHANGED <<learn, call>>

StepES == StepOf("es") /\ UNCHANGED <<learn, call>>

StepCEMRL == StepOf("cemrl") /\ UNCHANGED <<learn, call>>

Next ==
    \/ StepOrigin
    \/ StepGA
    \/ StepES
    \/ StepCEMRL

Spec == Init /\ [][Next]_vars

-----------------------------------------------------------------------------
(* Inserting rollouts into the replay buffer                               *)

\* the workflow is not stepping
WorkflowIdle ==
    /\ config = [variant |-> "origin", warmup_iters |-> 0, rl_injection_interval |-> 1]
    /\ key = <<>>
    /\ metrics = WorkflowMetric
    /\ nsteps = 0
    /\ agent_state = InitAgentState
    /\ opt_state = [actor |-> 0, critic |-> 0]
    /\ ec_opt_state = InitEcOptState("origin")
    /\ replay_buffer_state = EmptyBuffer
    /\ train_metrics = [rl_metrics |-> "none", num_updates_per_iter |-> 0, rb_size |-> 0]
    /\ trace = NoTrace
    /\ learn = NoLearn

\* the dones an episodic population rollout may produce
RolloutDones == {DonesOf(L) : L \in [1 .. (pop_size * num_envs) -> 1 .. Horizon]}

InitInsert ==
    /\ WorkflowIdle
    /\ call = NoCall
    /\ ins \in {[NoInsert EXCEPT !.mode = m] : m \in {"origin", "cemrl"}}
    /\ env_kind = "none"
    /\ env = NoEnv
    /\ env_hist = NoHist

\* ERL-Origin: _add_to_replay_buffer(rb, ec_trajectory, episode_lengths)
InsertOrigin ==
    /\ ins.mode = "origin"
    /\ ins.count < MaxInserts
    /\ \E dones \in RolloutDones :
          ins' = [ins EXCEPT
                    !.before = ins.rb,
                    !.dones = dones,
                    !.count = ins.count + 1,
                    !.rb = _add_to_replay_buffer(
                              ins.rb,
                              Trajectory(ins.count + 1, "ec", pop_size * num_envs),
                              compute_episode_length(dones))]
    /\ UNCHANGED <<wfVars, envVars, learn, call>>

\* CEMRL-OpenES: replay_buffer.add(rb, collapsed trajectory, collapsed mask)
InsertCEMRL ==
    /\ ins.mode = "cemrl"
    /\ ins.count < MaxInserts
    /\ \E dones \in RolloutDones :
          ins' = [ins EXCEPT
                    !.before = ins.rb,
                    !.dones = dones,
                    !.count = ins.count + 1,
                    !.rb = cemrl_add_to_replay_buffer(
                              ins.rb,
                              Trajectory(ins.count + 1, "ec", pop_size * num_envs),
                              dones)]
    /\ UNCHANGED <<wfVars, envVars, learn, call>>

NextInsert ==
    \/ InsertOrigin
    \/ InsertCEMRL

SpecInsert == InitInsert /\ [][NextInsert]_vars

-----------------------------------------------------------------------------
(* Stepping an environment                                                 *)

InitEnv ==
    /\ WorkflowIdle
    /\ call = NoCall
    /\ ins = NoInsert
    /\ env_kind \in {"disabled", "normal", "fast", "envpool", "envpool_autoreset"}
    /\ env = CASE env_kind = "disabled" -> EpisodeWrapper_reset(<<1>>)
               [] env_kind = "normal" -> VmapAutoResetWrapper_reset(<<0>>)
               [] env_kind = "fast" -> FastVmapAutoResetWrapper_reset(<<2>>)
               [] env_kind = "envpool_autoreset" ->
                      VmapEnvPoolAutoResetWrapper_reset(<<3>>)
               [] OTHER -> GymAdapter_reset
    /\ env_hist = [NoHist EXCEPT
                      !.resets = IF env_kind = "envpool" THEN <<>>
                                 ELSE <<env.env_state.ep>>]

\* the history after a step from env to new with the given action
Recorded(new, action) ==
    [acted |-> TRUE,
     prev |-> env,
     action |-> action,
     resets |-> IF env_kind # "envpool" /\ new.env_state.t = 0
                THEN Append(env_hist.resets, new.env_state.ep)
                ELSE env_hist.resets,
     n |-> env_hist.n + 1]

\* autoreset DISABLED: one call of OneEpisodeWrapper.step
StepDisabled ==
    /\ env_kind = "disabled"
    /\ env_hist.n < MaxEnvSteps
    /\ \E action \in EnvActions, r \in Rewards, d \in {0, 1} :
          /\ env' = OneEpisodeWrapper_step(env, action, r, d)
          /\ env_hist' = Recorded(env', action)
    /\ UNCHANGED <<wfVars, ins, env_kind, learn, call>>

\* autoreset NORMAL: one call of VmapAutoResetWrapper.step
StepNormal ==
    /\ env_kind = "normal"
    /\ env_hist.n < MaxEnvSteps
    /\ \E action \in EnvActions, r \in Rewards, d \in {0, 1} :
          /\ env' = VmapAutoResetWrapper_step(env, action, r, d)
          /\ env_hist' = Recorded(env', action)
    /\ UNCHANGED <<wfVars, ins, env_kind, learn, call>>

\* autoreset FAST: one call of FastVmapAutoResetWrapper.step
StepFast ==
    /\ env_kind = "fast"
    /\ env_hist.n < MaxEnvSteps
    /\ \E action \in EnvActions, r \in Rewards, d \in {0, 1} :
          /\ env' = FastVmapAutoResetWrapper_step(env, action, r, d)
          /\ env_hist' = Recorded(env', action)
    /\ UNCHANGED <<wfVars, ins, env_kind, learn, call>>

\* EnvPool evaluation: one call of envpool.OneEpisodeWrapper.step
StepEnvPool ==
    /\ env_kind = "envpool"
    /\ env_hist.n < MaxEnvSteps
    /\ \E action \in EnvActions, out \in [Lanes -> PoolOutputs] :
          /\ env' = EnvPoolOneEpisodeWrapper_step(env, action, out)
          /\ env_hist' = Recorded(env', action)
    /\ UNCHANGED <<wfVars, ins, env_kind, learn, call>>

\* EnvPool-style autoreset: one call of VmapEnvPoolAutoResetWrapper.step
StepEnvPoolAutoReset ==
    /\ env_kind = "envpool_autoreset"
    /\ env_hist.n < MaxEnvSteps
    /\ \E action \in EnvActions, r \in Rewards, d \in {0, 1} :
          /\ env' = VmapEnvPoolAutoResetWrapper_step(env, action, r, d)
          /\ env_hist' = Recorded(env', action)
    /\ UNCHANGED <<wfVars, ins, env_kind, learn, call>>

NextEnv ==
    \/ StepDisabled
    \/ StepNormal
    \/ StepFast
    \/ StepEnvPool
    \/ StepEnvPoolAutoReset

SpecEnv == InitEnv /\ [][NextEnv]_vars

-----------------------------------------------------------------------------
(* learn: the training loop (step, evaluate when due, checkpoint)          *)

EvalIntervals == 1 .. 2

TotalEpisodes == {3, 6}

\* the State record held by the caller
State ==
    [key |-> key, metrics |-> metrics, agent_state |-> agent_state,
     opt_state |-> opt_state, ec_opt_state |-> ec_opt_state,
     replay_buffer_state |-> replay_buffer_state]

\* jax.random.split(key, num)
split_num(k, num) == [n \in 1 .. num |-> Append(k, n - 1)]

\* variant of origin_evaluate that absorbs the evaluated observations into
\* the obs-preprocessor
origin_evaluate_normalizing(state) ==
    LET ks == split_num(state.key, 2)
    IN  [eval_metrics |-> [rl |-> state.agent_state.params.actor_params,
                           pop_center |-> "none", eval_key |-> ks[2]],
         state |-> [state EXCEPT
                        !.key = ks[1],
                        !.agent_state.obs_preprocessor_state =
                            state.agent_state.obs_preprocessor_state + 1]]

\* variant of origin_evaluate that counts the evaluation episodes as
\* sampled episodes of the training
origin_evaluate_counting(state) ==
    LET ks == split_num(state.key, 2)
    IN  [eval_metrics |-> [rl |-> state.agent_state.params.actor_params,
                           pop_center |-> "none", eval_key |-> ks[2]],
         state |-> [state EXCEPT
                        !.key = ks[1],
                        !.metrics.sampled_episodes =
                            U32Plus(state.metrics.sampled_episodes, U32(num_rl_agents))]]

\* ERLWorkflow.evaluate: the RL actors are rolled out, only the key is replaced
origin_evaluate(state) ==
    LET ks == split_num(state.key, 2)
    IN  [eval_metrics |-> [rl |-> state.agent_state.params.actor_params,
                           pop_center |-> "none", eval_key |-> ks[2]],
         state |-> [state EXCEPT !.key = ks[1]]]

\* ERLGAWorkflow.evaluate
ga_evaluate(state) ==
    LET ks == split_num(state.key, 2)
    IN  [eval_metrics |-> [rl |-> state.agent_state.params.actor_params,
                           pop_center |-> "none", eval_key |-> ks[2]],
         state |-> [state EXCEPT !.key = ks[1]]]

\* variant of es_evaluate that stores the evaluated population mean as an RL actor
es_evaluate_writes_actor(state) ==
    LET ks == split_num(state.key, 3)
    IN  [eval_metrics |-> [rl |-> state.agent_state.params.actor_params,
                           pop_center |-> state.ec_opt_state.mean, eval_key |-> ks[2]],
         state |-> [state EXCEPT
                       !.key = ks[1],
                       !.agent_state.params.actor_params =
                           [j \in 1 .. num_rl_agents |-> state.ec_opt_state.mean]]]

\* ERLESWorkflow.evaluate: the RL actors and the population mean are rolled out
es_evaluate(state) ==
    LET ks == split_num(state.key, 3)
    IN  [eval_metrics |-> [rl |-> state.agent_state.params.actor_params,
                           pop_center |-> state.ec_opt_state.mean, eval_key |-> ks[2]],
         state |-> [state EXCEPT !.key = ks[1]]]

\* CEMRLWorkflow.evaluate (inherited by CEMRL-OpenES): the population mean is rolled out
cemrl_evaluate(state) ==
    LET ks == split_num(state.key, 2)
    IN  [eval_metrics |-> [rl |-> <<>>, pop_center |-> state.ec_opt_state.mean,
                           eval_key |-> ks[2]],
         state |-> [state EXCEPT !.key = ks[1]]]

evaluate(variant, state) ==
    CASE variant = "origin" -> origin_evaluate(state)
      [] variant = "ga"     -> ga_evaluate(state)
      [] variant = "es"     -> es_evaluate(state)
      [] variant = "cemrl"  -> cemrl_evaluate(state)

\* skip_replay_buffer_state: the state without its replay buffer
skip_replay_buffer_state(state) ==
    [state EXCEPT !.replay_buffer_state = [skipped |-> TRUE]]

\* what ERLWorkflow.learn hands to checkpoint_manager.save
origin_checkpoint(cfg, state) ==
    LET saved_state == IF ~cfg.save_replay_buffer
                       THEN skip_replay_buffer_state(state) ELSE state
    IN  state

\* what ERLGAWorkflow.learn hands to checkpoint_manager.save
ga_checkpoint(cfg, state) ==
    LET saved_state == IF ~cfg.save_replay_buffer
                       THEN skip_replay_buffer_state(state) ELSE state
    IN  saved_state

\* what ERLESWorkflow.learn hands to checkpoint_manager.save
es_checkpoint(cfg, state) ==
    LET saved_state == IF ~cfg.save_replay_buffer
                       THEN skip_replay_buffer_state(state) ELSE state
    IN  state

\* what CEMRLOpenESWorkflow.learn hands to checkpoint_manager.save
cemrl_checkpoint(cfg, state) ==
    LET saved_state == IF ~cfg.save_replay_buffer
                       THEN skip_replay_buffer_state(state) ELSE state
    IN  state

checkpoint(cfg, state) ==
    CASE cfg.variant = "origin" -> origin_checkpoint(cfg, state)
      [] cfg.variant = "ga"     -> ga_checkpoint(cfg, state)
      [] cfg.variant = "es"     -> es_checkpoint(cfg, state)
      [] cfg.variant = "cemrl"  -> cemrl_checkpoint(cfg, state)

\* variant of learn_range that rounds the number of iterations down
learn_range_floor(cfg, m) ==
    LET per_iter == IF cfg.variant = "ga"
                    THEN episodes_for_fitness * pop_size + rollout_episodes * num_rl_agents
                    ELSE episodes_for_fitness * pop_size
    IN  [start |-> m.iterations,
         stop |-> U32Plus(U32(cfg.total_episodes \div per_iter), m.iterations)]

\* the range of the for loop of learn: range(start, stop)
learn_range(cfg, m) ==
    CASE cfg.variant = "origin" ->
            [start |-> m.iterations,
             stop |-> U32CeilDiv(U32(cfg.total_episodes),
                                 episodes_for_fitness * pop_size)]
      [] cfg.variant = "ga" ->
            LET sampled_episodes_per_iter ==
                    episodes_for_fitness * pop_size + rollout_episodes * num_rl_agents
                num_iters ==
                    U32CeilDiv(U32Minus(U32(cfg.total_episodes), m.sampled_episodes),
                               sampled_episodes_per_iter)
            IN  [start |-> m.iterations, stop |-> U32Plus(num_iters, m.iterations)]
      [] OTHER ->
            LET num_iters ==
                    U32CeilDiv(U32Minus(U32(cfg.total_episodes), m.sampled_episodes),
                               episodes_for_fitness * pop_size)
            IN  [start |-> m.iterations, stop |-> U32Plus(num_iters, m.iterations)]

\* the condition under which learn evaluates after iteration iters
eval_due(cfg, iters, stop) ==
    \/ U32Mod(iters, cfg.eval_interval) = 0
    \/ cfg.variant = "ga" /\ iters = stop

\* one configuration per workflow, with the options read by learn
LearnConfigs ==
    {[variant |-> v,
      warmup_iters |-> IF v \in {"ga", "es"} THEN 2 ELSE 0,
      rl_injection_interval |-> IF v = "es" THEN 2 ELSE 1,
      eval_interval |-> e, save_replay_buffer |-> b, total_episodes |-> t] :
        v \in Variants, e \in EvalIntervals, b \in BOOLEAN, t \in TotalEpisodes}

InitLearn ==
    /\ ins = NoInsert
    /\ env_kind = "none"
    /\ env = NoEnv
    /\ env_hist = NoHist
    /\ config \in LearnConfigs
    /\ key = <<>>
    /\ metrics = WorkflowMetric
    /\ nsteps = 0
    /\ agent_state = InitAgentState
    /\ opt_state = [actor |-> 0, critic |-> 0]
    /\ ec_opt_state = InitEcOptState(config.variant)
    /\ replay_buffer_state = EmptyBuffer
    /\ train_metrics = [rl_metrics |-> "none", num_updates_per_iter |-> 0, rb_size |-> 0]
    /\ trace = NoTrace
    /\ learn = [NoLearn EXCEPT !.pc = "start"]
    /\ call = NoCall

\* learn is entered: the loop range is computed
LearnBegin ==
    /\ learn.pc = "start"
    /\ LET r == learn_range(config, metrics)
       IN  learn' = [learn EXCEPT
                        !.i = r.start, !.stop = r.stop,
                        !.pc = IF U32Lt(r.start, r.stop) THEN "step" ELSE "done"]
    /\ UNCHANGED <<wfVars, ins, envVars, call>>

\* train_metrics, state = self.step(state)
LearnStep ==
    /\ learn.pc = "step"
    /\ StepOf(config.variant)
    /\ learn' = [learn EXCEPT !.pc = "eval"]
    /\ UNCHANGED call

\* if iters % eval_interval == 0: eval_metrics, state = self.evaluate(state)
LearnEvaluate ==
    /\ learn.pc = "eval"
    /\ LET iters == U32Plus(learn.i, U32(1))
       IN  IF eval_due(config, iters, learn.stop)
           THEN LET res == evaluate(config.variant, State)
                IN  /\ key' = res.state.key
                    /\ metrics' = res.state.metrics
                    /\ agent_state' = res.state.agent_state
                    /\ opt_state' = res.state.opt_state
                    /\ ec_opt_state' = res.state.ec_opt_state
                    /\ replay_buffer_state' = res.state.replay_buffer_state
                    /\ learn' = [learn EXCEPT !.pc = "save",
                                              !.evals = learn.evals + 1,
                                              !.eval_metrics = res.eval_metrics]
           ELSE /\ learn' = [learn EXCEPT !.pc = "save"]
                /\ UNCHANGED <<key, metrics, agent_state, opt_state, ec_opt_state,
                               replay_buffer_state>>
    /\ UNCHANGED <<config, train_metrics, trace, nsteps, ins, envVars, call>>

\* self.checkpoint_manager.save(iters, ...), then the next loop index
LearnSave ==
    /\ learn.pc = "save"
    /\ LET next == U32Plus(learn.i, U32(1))
       IN  learn' = [learn EXCEPT
                        !.saved = checkpoint(config, State),
                        !.saves = learn.saves + 1,
                        !.i = next,
                        !.pc = IF U32Lt(next, learn.stop) THEN "step" ELSE "done"]
    /\ UNCHANGED <<wfVars, ins, envVars, call>>

NextLearn ==
    \/ LearnBegin
    \/ LearnStep
    \/ LearnEvaluate
    \/ LearnSave

SpecLearn == InitLearn /\ [][NextLearn]_vars

\* learn is a sequential loop of one thread: it keeps running until it returns
SpecLearnFair == SpecLearn /\ WF_vars(NextLearn)

\* learn is called once more, on the state the previous call returned
LearnAgain ==
    /\ learn.pc = "done"
    /\ learn.calls < MaxCalls - 1
    /\ learn' = [learn EXCEPT !.pc = "start", !.calls = learn.calls + 1]
    /\ UNCHANGED <<wfVars, ins, envVars, call>>

\* runs of learn that evaluate after every iteration and save the buffer
InitRelearn ==
    /\ InitLearn
    /\ config.eval_interval = 1
    /\ config.save_replay_buffer

NextRelearn ==
    \/ LearnBegin
    \/ LearnStep
    \/ LearnEvaluate
    \/ LearnSave
    \/ LearnAgain

SpecRelearn == InitRelearn /\ [][NextRelearn]_vars

\* Two runs of learn from the state setup returns, one after the other: the
\* first with eval_interval, the second with other_interval.  The first run
\* records what the rollouts of each step returned and the state after each
\* iteration; the second run draws the same rollout results.
InitPair ==
    /\ ins = NoInsert
    /\ env_kind = "none"
    /\ env = NoEnv
    /\ env_hist = NoHist
    /\ config \in {cfg \in LearnConfigs : cfg.save_replay_buffer}
    /\ key = <<>>
    /\ metrics = WorkflowMetric
    /\ nsteps = 0
    /\ agent_state = InitAgentState
    /\ opt_state = [actor |-> 0, critic |-> 0]
    /\ ec_opt_state = InitEcOptState(config.variant)
    /\ replay_buffer_state = EmptyBuffer
    /\ train_metrics = [rl_metrics |-> "none", num_updates_per_iter |-> 0, rb_size |-> 0]
    /\ trace = NoTrace
    /\ learn = [NoLearn EXCEPT !.pc = "start"]
    /\ \E other_interval \in EvalIntervals \ {config.eval_interval} :
          call = [op |-> "pair", n |-> 0, run |-> 1,
                  other_interval |-> other_interval,
                  inputs |-> <<>>, states |-> <<>>]

\* train_metrics, state = self.step(state): the first run draws the rollout
\* results, the second run is given the results the first run drew
PairStep ==
    /\ call.op = "pair"
    /\ learn.pc = "step"
    /\ nsteps < MaxIters
    /\ IF call.run = 1
       THEN \E in_fitnesses \in PopReturns(config.variant),
               in_rl_fitnesses \in RlReturns(config.variant),
               in_ec_lengths \in LengthProfiles(pop_size * num_envs),
               in_rl_lengths \in RlLengths(step_phases(config.variant,
                                            U32Plus(metrics.iterations, U32(1)))) :
               /\ StepWith(config.variant, in_fitnesses, in_rl_fitnesses,
                           in_ec_lengths, in_rl_lengths)
               /\ call' = [call EXCEPT
                              !.inputs = Append(call.inputs,
                                  [in_fitnesses |-> in_fitnesses,
                                   in_rl_fitnesses |-> in_rl_fitnesses,
                                   in_ec_lengths |-> in_ec_lengths,
                                   in_rl_lengths |-> in_rl_lengths]),
                              !.states = Append(call.states,
                                  [state |-> State, evals |-> learn.evals])]
       ELSE LET drawn == call.inputs[nsteps + 1]
            IN  /\ StepWith(config.variant, drawn.in_fitnesses, drawn.in_rl_fitnesses,
                            drawn.in_ec_lengths, drawn.in_rl_lengths)
                /\ UNCHANGED call
    /\ learn' = [learn EXCEPT !.pc = "eval"]

\* the first run has returned: the second run starts from the same initial
\* state, with the other eval_interval
PairRestart ==
    /\ call.op = "pair"
    /\ call.run = 1
    /\ learn.pc = "done"
    /\ call' = [call EXCEPT
                   !.run = 2,
                   !.other_interval = config.eval_interval,
                   !.states = Append(call.states,
                                     [state |-> State, evals |-> learn.evals])]
    /\ config' = [config EXCEPT !.eval_interval = call.other_interval]
    /\ key' = <<>>
    /\ metrics' = WorkflowMetric
    /\ nsteps' = 0
    /\ agent_state' = InitAgentState
    /\ opt_state' = [actor |-> 0, critic |-> 0]
    /\ ec_opt_state' = InitEcOptState(config.variant)
    /\ replay_buffer_state' = EmptyBuffer
    /\ train_metrics' = [rl_metrics |-> "none", num_updates_per_iter |-> 0, rb_size |-> 0]
    /\ trace' = NoTrace
    /\ learn' = [NoLearn EXCEPT !.pc = "start"]
    /\ UNCHANGED <<ins, envVars>>

NextPair ==
    \/ LearnBegin
    \/ PairStep
    \/ LearnEvaluate
    \/ LearnSave
    \/ PairRestart

SpecPair == InitPair /\ [][NextPair]_vars

-----------------------------------------------------------------------------
(* Building the workflow from its configuration, and setup                 *)

RandomTimesteps == 0 .. MaxRandom

EnvCounts == 1 .. 2

\* the constructor of the EC optimizer of the workflow (GA, ERLGA,
\* VanillaESMod: elites are taken from the population; OpenES: mirrored
\* noise comes in pairs)
ec_optimizer_accepts(cfg) ==
    IF cfg.variant = "cemrl"
    THEN ~(cfg.mirror_sampling /\ cfg.pop_size % 2 = 1)
    ELSE cfg.num_elites <= cfg.pop_size

\* variant of _build_from_config without the assertion of ERL-GA
_build_from_config_unchecked(cfg) ==
    IF ec_optimizer_accepts(cfg) THEN "built" ELSE "failed"

\* _build_from_config: ERL-GA asserts num_elites >= num_rl_agents, then the
\* EC optimizer is constructed
_build_from_config(cfg) ==
    IF cfg.variant = "ga" /\ ~(cfg.num_elites >= cfg.num_rl_agents) THEN "failed"
    ELSE IF ec_optimizer_accepts(cfg) THEN "built" ELSE "failed"

\* flatten_rollout_trajectory: [T, B, ...] -> [T*B, ...]
flatten_rollout_trajectory(x) == IF x = <<>> THEN <<>> ELSE collapse(x)

\* running_statistics.update(state, batch): the observations absorbed so far
\* (a state that is None is kept as a negative number)
running_statistics_update(ops, batch) == ops + Len(batch)

\* the dones [T, B] a rollout of T steps over B autoreset envs may produce:
\* every episode ends within max_episode_steps steps
PrefillDones(T, B) ==
    {d \in [1 .. T -> [1 .. B -> {0, 1}]] :
        \A i \in 1 .. B : \A t \in max_episode_steps .. T :
            \E u \in (t - max_episode_steps + 1) .. t : d[u][i] = 1}

\* variant of _postsetup_replaybuffer that counts random_timesteps as sampled
_postsetup_replaybuffer_nominal(cfg, state, dones) ==
    LET ks == split_num(state.key, 3)
        rollout_length == cfg.random_timesteps \div cfg.num_envs
        trajectory == flatten_rollout_trajectory(
            [t \in 1 .. rollout_length |->
                [i \in 1 .. cfg.num_envs |-> Transition(0, "random", t, i)]])
        ast == state.agent_state
    IN  [state EXCEPT
            !.key = ks[1],
            !.metrics.sampled_timesteps =
                U32Plus(state.metrics.sampled_timesteps, U32(cfg.random_timesteps)),
            !.metrics.sampled_episodes =
                U32Plus(state.metrics.sampled_episodes,
                        U32(SumSeq(flatten_rollout_trajectory(dones)))),
            !.agent_state =
                IF ast.obs_preprocessor_state >= 0 /\ rollout_length > 0
                THEN [ast EXCEPT !.obs_preprocessor_state =
                        running_statistics_update(ast.obs_preprocessor_state, trajectory)]
                ELSE ast,
            !.replay_buffer_state = BufferAdd(state.replay_buffer_state, trajectory)]

\* _postsetup_replaybuffer: a random-policy rollout of
\* random_timesteps // num_envs steps over num_envs autoreset envs is added
_postsetup_replaybuffer(cfg, state, dones) ==
    LET ks == split_num(state.key, 3)
        rollout_length == cfg.random_timesteps \div cfg.num_envs
        trajectory == flatten_rollout_trajectory(
            [t \in 1 .. rollout_length |->
                [i \in 1 .. cfg.num_envs |-> Transition(0, "random", t, i)]])
        ast == state.agent_state
        sampled_timesteps == U32(rollout_length * cfg.num_envs)
        sampled_episodes == U32(SumSeq(flatten_rollout_trajectory(dones)))
    IN  [state EXCEPT
            !.key = ks[1],
            !.metrics.sampled_timesteps =
                U32Plus(state.metrics.sampled_timesteps, sampled_timesteps),
            !.metrics.sampled_episodes =
                U32Plus(state.metrics.sampled_episodes, sampled_episodes),
            !.agent_state =
                IF ast.obs_preprocessor_state >= 0 /\ rollout_length > 0
                THEN [ast EXCEPT !.obs_preprocessor_state =
                        running_statistics_update(ast.obs_preprocessor_state, trajectory)]
                ELSE ast,
            !.replay_buffer_state = BufferAdd(state.replay_buffer_state, trajectory)]

\* setup(key)
setup(cfg, root_key, dones) ==
    LET ks == split_num(root_key, 3)
        state == [key |-> ks[1],
                  metrics |-> WorkflowMetric,
                  agent_state |-> InitAgentState,
                  opt_state |-> [actor |-> 0, critic |-> 0],
                  ec_opt_state |-> InitEcOptState(cfg.variant),
                  replay_buffer_state |-> EmptyBuffer]
    IN  IF cfg.random_timesteps > 0
        THEN _postsetup_replaybuffer(cfg, state, dones)
        ELSE state

\* the configurations handed to the builder; the options a workflow does
\* not have are kept at one value
BuildConfigs ==
    {cf \in [variant : Variants,
             warmup_iters : {0}, rl_injection_interval : {1},
             pop_size : {pop_size - 1, pop_size},
             num_elites : 1 .. (pop_size + 1),
             num_rl_agents : {1, num_rl_agents},
             mirror_sampling : BOOLEAN,
             random_timesteps : RandomTimesteps,
             num_envs : EnvCounts] :
        /\ cf.variant # "cemrl" => ~cf.mirror_sampling
        /\ cf.variant = "cemrl" => cf.num_elites = num_elites
        /\ cf.variant # "origin" => (cf.random_timesteps = 0 /\ cf.num_envs = num_envs)}

\* the step model is written for one population shape
ShapeOfStepModel(cfg) ==
    /\ cfg.pop_size = pop_size
    /\ cfg.num_elites = num_elites
    /\ cfg.num_rl_agents = num_rl_agents
    /\ cfg.num_envs = num_envs

InitSetup ==
    /\ ins = NoInsert
    /\ env_kind = "none"
    /\ env = NoEnv
    /\ env_hist = NoHist
    /\ config \in BuildConfigs
    /\ key = <<>>
    /\ metrics = WorkflowMetric
    /\ nsteps = 0
    /\ agent_state = InitAgentState
    /\ opt_state = [actor |-> 0, critic |-> 0]
    /\ ec_opt_state = InitEcOptState(config.variant)
    /\ replay_buffer_state = EmptyBuffer
    /\ train_metrics = [rl_metrics |-> "none", num_updates_per_iter |-> 0, rb_size |-> 0]
    /\ trace = NoTrace
    /\ learn = [NoLearn EXCEPT !.pc = "new"]
    /\ call = NoCall

\* the workflow is built from its configuration
Build ==
    /\ learn.pc = "new"
    /\ learn' = [learn EXCEPT !.pc = _build_from_config(config)]
    /\ UNCHANGED <<wfVars, ins, envVars, call>>

\* state = workflow.setup(key)
Setup ==
    /\ learn.pc = "built"
    /\ \E dones \in PrefillDones(config.random_timesteps \div config.num_envs,
                                 config.num_envs) :
          LET state == setup(config, key, dones)
          IN  /\ key' = state.key
              /\ metrics' = state.metrics
              /\ agent_state' = state.agent_state
              /\ opt_state' = state.opt_state
              /\ ec_opt_state' = state.ec_opt_state
              /\ replay_buffer_state' = state.replay_buffer_state
    /\ learn' = [learn EXCEPT !.pc = "ready"]
    /\ UNCHANGED <<config, train_metrics, trace, nsteps, ins, envVars, call>>

\* the first training step of a workflow that was set up
FirstStep ==
    /\ learn.pc = "ready"
    /\ nsteps = 0
    /\ ShapeOfStepModel(config)
    /\ StepOf(config.variant)
    /\ UNCHANGED <<learn, call>>

\* the second training step of an ERL-Origin workflow that was set up
SecondStep ==
    /\ learn.pc = "ready"
    /\ nsteps = 1
    /\ learn.evals = 0
    /\ ShapeOfStepModel(config)
    /\ StepOf("origin")
    /\ UNCHANGED <<learn, call>>

\* an evaluation of a workflow that was set up, before or after its first step
SetupEvaluate ==
    /\ learn.pc = "ready"
    /\ learn.evals < MaxCalls
    /\ LET res == evaluate(config.variant, State)
       IN  /\ key' = res.state.key
           /\ metrics' = res.state.metrics
           /\ agent_state' = res.state.agent_state
           /\ opt_state' = res.state.opt_state
           /\ ec_opt_state' = res.state.ec_opt_state
           /\ replay_buffer_state' = res.state.replay_buffer_state
           /\ learn' = [learn EXCEPT !.evals = learn.evals + 1,
                                     !.eval_metrics = res.eval_metrics]
    /\ UNCHANGED <<config, train_metrics, trace, nsteps, ins, envVars, call>>

NextSetup ==
    \/ Build
    \/ Setup
    \/ FirstStep
    \/ SecondStep
    \/ SetupEvaluate

SpecSetup == InitSetup /\ [][NextSetup]_vars

-----------------------------------------------------------------------------
(* Direct calls of library functions                                       *)

\* tau is kept in units of 1 / TauUnit, so that tau * source + (1 - tau) * target
\* is computed exactly on the leaves below
TauUnit == 2

Taus == 0 .. TauUnit

\* finite leaf values, on which MaxCalls successive updates are exact
Leaves == {0 - TauUnit ^ MaxCalls, 0, TauUnit ^ MaxCalls}

\* parameter trees: a leaf and a nested pair of leaves
ParamTrees == [w : Leaves, layer : [b : Leaves]]

\* variant of soft_target_update with target and source exchanged
soft_target_update_exchanged(target_params, source_params, tau) ==
    LET f(target, source) == (tau * target + (TauUnit - tau) * source) \div TauUnit
    IN  [w |-> f(target_params.w, source_params.w),
         layer |-> [b |-> f(target_params.layer.b, source_params.layer.b)]]

\* soft_target_update: tree_map(lambda target, source: tau * source + (1 - tau) * target)
soft_target_update(target_params, source_params, tau) ==
    LET f(target, source) == (tau * source + (TauUnit - tau) * target) \div TauUnit
    IN  [w |-> f(target_params.w, source_params.w),
         layer |-> [b |-> f(target_params.layer.b, source_params.layer.b)]]

\* the minibatches the replay buffer may return, by name
Minibatches == {"b1", "b2", "b3"}

\* sample_batches: a stack of actor_update_interval minibatches
SampleStacks == [1 .. actor_update_interval -> Minibatches]

\* variant of _update_fn_ops without the critic step on the last minibatch
_update_fn_ops_scan_only(sample_batches) ==
    LET critic_sample_batches == SubSeq(sample_batches, 1, Len(sample_batches) - 1)
        last_sample_batch == sample_batches[Len(sample_batches)]
    IN  [k \in 1 .. (actor_update_interval - 1) |->
            [op |-> "critic", batch |-> critic_sample_batches[k]]]
        \o <<[op |-> "actor", batch |-> last_sample_batch],
              [op |-> "target_actor", batch |-> "none"],
              [op |-> "target_critic", batch |-> "none"]>>

\* the gradient steps and target updates of one invocation of _update_fn, in
\* program order: a scan of critic steps over sample_batches[:-1], a critic
\* step and an actor step on sample_batches[-1], the two soft target updates
_update_fn_ops(sample_batches) ==
    LET critic_sample_batches == SubSeq(sample_batches, 1, Len(sample_batches) - 1)
        last_sample_batch == sample_batches[Len(sample_batches)]
    IN  (IF actor_update_interval - 1 > 0
         THEN [k \in 1 .. (actor_update_interval - 1) |->
                  [op |-> "critic", batch |-> critic_sample_batches[k]]]
         ELSE <<>>)
        \o <<[op |-> "critic", batch |-> last_sample_batch],
              [op |-> "actor", batch |-> last_sample_batch],
              [op |-> "target_actor", batch |-> "none"],
              [op |-> "target_critic", batch |-> "none"]>>

\* the number of entries of a sequence of operations that are 'op'
CountOps(ops, op) == Cardinality({k \in 1 .. Len(ops) : ops[k].op = op})

\* one consumption of a PRNG key: the key and the call that consumed it
Use(k, by) == [key |-> k, by |-> by]

\* the consumption of each key of a batch of keys by a vmapped call
Uses(ks, by) == [n \in 1 .. Len(ks) |-> Use(ks[n], by)]

\* jax.random.PRNGKey(seed): a root key of its own, outside the split tree
\* of the key handed to setup
PRNGKey(seed) == <<0 - 1 - seed>>

\* the workflows whose _setup_agent_and_optimizer is modelled
KeyVariants == {"origin", "ga", "es"}

\* the keys consumed by _setup_agent_and_optimizer(key), in program order
_setup_agent_and_optimizer_keys(variant, k) ==
    LET ks == split_num(k, 3)
        agent_key == ks[1]
        pop_agent_key == ks[2]
        ec_key == ks[3]
    IN  <<Use(k, "split"), Use(agent_key, "split")>>
        \o Uses(split_num(agent_key, num_rl_agents), "agent.init")
        \o (IF variant \in {"ga", "es"}
            THEN <<Use(k, "obs_space.sample")>>
            ELSE <<>>)
        \o (IF variant = "es"
            THEN <<Use(pop_agent_key, "actor_network.init")>>
            ELSE <<Use(pop_agent_key, "split")>>
                 \o Uses(split_num(pop_agent_key, pop_size), "actor_network.init"))
        \o <<Use(ec_key, "ec_optimizer.init")>>

\* the keys consumed by _postsetup_replaybuffer(state), and the key it
\* leaves in the state
_postsetup_replaybuffer_keys(state_key) ==
    LET ks == split_num(state_key, 3)
        env_key == ks[2]
        rollout_key == ks[3]
    IN  [key |-> ks[1],
         uses |-> <<Use(state_key, "split"),
                    Use(PRNGKey(0), "random_agent.init"),
                    Use(env_key, "env.reset"),
                    Use(rollout_key, "rollout")>>]

\* the keys consumed by ERLWorkflow.setup(key), and the key of the state it
\* returns
setup_keys(root_key, random_timesteps) ==
    LET ks == split_num(root_key, 3)
        agent_key == ks[2]
        rb_key == ks[3]
        uses == <<Use(root_key, "split")>>
                \o _setup_agent_and_optimizer_keys("origin", agent_key)
                \o <<Use(rb_key, "_setup_replaybuffer")>>
        post == _postsetup_replaybuffer_keys(ks[1])
    IN  IF random_timesteps > 0
        THEN [key |-> post.key, uses |-> uses \o post.uses]
        ELSE [key |-> ks[1], uses |-> uses]

\* the keys consumed by the scan of _update_critic_fn over 'length' batches
RECURSIVE _update_critic_fn_keys(_, _)
_update_critic_fn_keys(carry_key, length) ==
    IF length = 0
    THEN <<>>
    ELSE LET ks == split(carry_key)
             critic_key == ks[2]
         IN  <<Use(carry_key, "split"), Use(critic_key, "critic_update_fn")>>
             \o _update_critic_fn_keys(ks[1], length - 1)

\* the keys consumed by _update_fn(agent_state, opt_state, sample_batches, key)
_update_fn_keys(k) ==
    LET ks == split_num(k, 3)
        critic_key == ks[2]
        actor_key == ks[3]
        critic_multiple_update_key == split(ks[1])[2]
    IN  <<Use(k, "split")>>
        \o (IF actor_update_interval - 1 > 0
            THEN <<Use(ks[1], "split")>>
                 \o _update_critic_fn_keys(critic_multiple_update_key,
                                           actor_update_interval - 1)
            ELSE <<>>)
        \o <<Use(critic_key, "critic_update_fn"), Use(actor_key, "actor_update_fn")>>

\* the keys consumed by the scan of _sample_and_update_fn in _rl_update: the
\* batch keys are split from the new carry key, not from rb_key
RECURSIVE _rl_update_keys(_, _)
_rl_update_keys(carry_key, num_updates) ==
    IF num_updates = 0
    THEN <<>>
    ELSE LET ks == split_num(carry_key, 3)
             new_key == ks[1]
             learn_key == ks[3]
             rb_key == split_num(new_key, actor_update_interval)
         IN  <<Use(carry_key, "split"), Use(new_key, "split")>>
             \o Uses(rb_key, "replay_buffer.sample")
             \o _update_fn_keys(learn_key)
             \o _rl_update_keys(new_key, num_updates - 1)

\* the keys consumed by ERLWorkflow.step(state) whose RL update makes
\* num_updates invocations, and the key of the state it returns
step_keys(state_key, num_updates) ==
    LET ks == split_num(state_key, 6)
        ec_rollout_key == ks[3]
        rl_rollout_key == ks[4]
        learn_key == ks[6]
    IN  [key |-> ks[1],
         uses |-> <<Use(state_key, "split"), Use(ec_rollout_key, "split")>>
                  \o Uses(split_num(ec_rollout_key, pop_size), "ec_collector.evaluate")
                  \o <<Use(rl_rollout_key, "split")>>
                  \o Uses(split_num(rl_rollout_key, num_rl_agents),
                          "rl_collector.evaluate")
                  \o _rl_update_keys(learn_key, num_updates)]

InitCall ==
    /\ WorkflowIdle
    /\ ins = NoInsert
    /\ env_kind = "none"
    /\ env = NoEnv
    /\ env_hist = NoHist
    /\ \/ \E target \in ParamTrees, source \in ParamTrees, tau \in Taus :
             call = [op |-> "soft_target_update", n |-> 0,
                     target |-> target, source |-> source, tau |-> tau,
                     prior |-> target]
       \/ call = [op |-> "_update_fn", n |-> 0,
                  agent_state |-> InitAgentState,
                  opt_state |-> [actor |-> 0, critic |-> 0],
                  sample_batches |-> <<>>, ops |-> <<>>,
                  critic_steps |-> 0, actor_steps |-> 0, target_updates |-> 0]
       \/ \E variant \in KeyVariants, random_timesteps \in RandomTimesteps :
             /\ variant # "origin" => random_timesteps = 0
             /\ call = [op |-> "keys", n |-> 0, pc |-> "new", variant |-> variant,
                        random_timesteps |-> random_timesteps,
                        key |-> <<>>, uses |-> <<>>]

\* target_params = soft_target_update(target_params, source_params, tau)
CallSoftTargetUpdate ==
    /\ call.op = "soft_target_update"
    /\ call.n < MaxCalls
    /\ call' = [call EXCEPT
                   !.n = call.n + 1,
                   !.prior = call.target,
                   !.target = soft_target_update(call.target, call.source, call.tau)]
    /\ UNCHANGED <<wfVars, ins, envVars, learn>>

\* (agent_state, opt_state), train_info = _rl_update_fn(agent_state, opt_state,
\* sample_batches, learn_key), inside the scan of _rl_update
CallUpdateFn ==
    /\ call.op = "_update_fn"
    /\ call.n < MaxCalls
    /\ \E sample_batches \in SampleStacks :
          LET res == _update_fn(call.agent_state, call.opt_state)
              ops == _update_fn_ops(sample_batches)
          IN  call' = [call EXCEPT
                          !.n = call.n + 1,
                          !.agent_state = res.agent_state,
                          !.opt_state = res.opt_state,
                          !.sample_batches = sample_batches,
                          !.ops = ops,
                          !.critic_steps = call.critic_steps + CountOps(ops, "critic"),
                          !.actor_steps = call.actor_steps + CountOps(ops, "actor"),
                          !.target_updates =
                              call.target_updates + CountOps(ops, "target_actor")]
    /\ UNCHANGED <<wfVars, ins, envVars, learn>>

\* ERL-Origin: state = setup(key); ERL-GA and ERL-ES: the call of
\* _setup_agent_and_optimizer(key) that their setup makes
CallSetupKeys ==
    /\ call.op = "keys"
    /\ call.pc = "new"
    /\ LET res == IF call.variant = "origin"
                  THEN setup_keys(call.key, call.random_timesteps)
                  ELSE [key |-> call.key,
                        uses |-> _setup_agent_and_optimizer_keys(call.variant, call.key)]
       IN  call' = [call EXCEPT !.pc = "ready", !.key = res.key, !.uses = res.uses]
    /\ UNCHANGED <<wfVars, ins, envVars, learn>>

\* ERL-Origin: train_metrics, state = step(state)
CallStepKeys ==
    /\ call.op = "keys"
    /\ call.pc = "ready"
    /\ call.variant = "origin"
    /\ call.n < MaxCalls
    /\ \E num_updates \in 0 .. MaxCalls :
          LET res == step_keys(call.key, num_updates)
          IN  call' = [call EXCEPT !.n = call.n + 1, !.key = res.key,
                                  !.uses = call.uses \o res.uses]
    /\ UNCHANGED <<wfVars, ins, envVars, learn>>

NextCall ==
    \/ CallSoftTargetUpdate
    \/ CallUpdateFn
    \/ CallSetupKeys
    \/ CallStepKeys

SpecCall == InitCall /\ [][NextCall]_vars

-----------------------------------------------------------------------------
(* Properties of the workflow step                                         *)

Ran(ph) == \E n \in 1 .. Len(trace.log) : trace.log[n] = ph

Before(a, b) ==
    \A m, n \in 1 .. Len(trace.log) :
        (trace.log[m] = a /\ trace.log[n] = b) => m < n

ERLVariants == {"origin", "ga", "es"}

\* the iteration number of the last step, as a number
Iter == ToNat(metrics.iterations)

\* the place of a phase in the order  EC-rollout, buffer-append, RL-rollout,
\* buffer-append, RL-update, EC-tell, injection
Rank(ph) ==
    CASE ph = "ec_rollout" -> 1
      [] ph = "ec_append" -> 2
      [] ph = "rl_rollout" -> 3
      [] ph = "rl_append" -> 4
      [] ph = "rl_update" -> 5
      [] ph \in {"ec_tell", "ec_tell_external"} -> 6
      [] ph = "injection" -> 7
      [] OTHER -> 0

\* C1 (as stated): in every ERL variant the phases of a step run in the order
\* EC-rollout, buffer-append, RL-rollout, buffer-append, RL-update, EC-tell,
\* injection; no phase runs before a phase listed earlier.
C1_StrictOrder ==
    config.variant \in ERLVariants =>
        \A m, n \in 1 .. Len(trace.log) :
            m < n => Rank(trace.log[m]) <= Rank(trace.log[n])

\* C1 (amended): every step starts with the EC rollout and its buffer append,
\* and an RL rollout is stored before the RL update of the same step; the
\* rest of the order depends on the variant. ERL-Origin tells the optimizer
\* right after the EC append, before the RL rollout, and injects last;
\* ERL-GA injects after the RL update and before tell_external; ERL-ES
\* injects, then tells, then makes the RL update.
C1_PhaseOrder ==
    (config.variant \in ERLVariants /\ nsteps > 0) =>
        /\ Ran("ec_rollout") /\ Ran("ec_append")
        /\ Before("ec_rollout", "ec_append")
        /\ Before("ec_append", "rl_rollout")
        /\ Before("rl_rollout", "rl_append")
        /\ Before("rl_append", "rl_update")
        /\ Before("ec_append", "ec_tell")
        /\ Before("ec_append", "ec_tell_external")
        /\ Before("ec_append", "injection")
        /\ config.variant = "origin" =>
              /\ Ran("ec_tell")
              /\ Before("ec_tell", "rl_rollout")
              /\ Before("rl_update", "injection")
              /\ Ran("injection") => Ran("rl_update")
        /\ config.variant = "ga" =>
              /\ Ran("rl_update")
              /\ Before("rl_update", "injection")
              /\ Before("rl_update", "ec_tell")
              /\ Before("injection", "ec_tell_external")
              /\ Ran("injection") <=> Ran("ec_tell_external")
              /\ Ran("injection") <=> ~Ran("ec_tell")
        /\ config.variant = "es" =>
              /\ Ran("injection") /\ Ran("ec_tell") /\ Ran("rl_update")
              /\ Before("rl_append", "injection")
              /\ Before("injection", "ec_tell")
              /\ Before("ec_tell", "rl_update")

\* an ERL-Origin step past the warm-up that ran all seven phases
C1_Witness ==
    /\ config.variant = "origin"
    /\ trace.log = <<"ec_rollout", "ec_append", "ec_tell", "rl_rollout",
                     "rl_append", "rl_update", "injection">>

\* the transitions produced by the rollouts of the last step
ThisIterationItems ==
    {Transition(Iter, "ec", t, i) :
        <<t, i>> \in {x \in (1 .. Horizon) \X (1 .. Len(trace.ec_lengths)) :
                        x[1] <= trace.ec_lengths[x[2]]}}
    \cup
    {Transition(Iter, "rl", t, i) :
        <<t, i>> \in {x \in (1 .. Horizon) \X (1 .. Len(trace.rl_lengths)) :
                        x[1] <= trace.rl_lengths[x[2]]}}

\* C2 (as stated): whenever a step performs an RL update, the buffer handed to
\* the update already holds the transitions of the same step's rollouts.
C2_UpdateSeesIteration ==
    trace.updated => ThisIterationItems \subseteq BufferItems(trace.upd_rb)

\* C2 (amended): in ERL-Origin, ERL-GA and ERL-ES the buffer handed to the RL
\* update of a step holds the transitions of that step's EC and RL rollouts
\* (the buffer being large enough for one iteration); CEMRL-OpenES updates
\* before its rollout.
C2_ERLUpdateSeesIteration ==
    (trace.updated /\ config.variant \in ERLVariants) =>
        /\ trace.ec_lengths # <<>>
        /\ trace.rl_lengths # <<>>
        /\ ThisIterationItems \subseteq BufferItems(trace.upd_rb)

\* a second ERL-GA step (the ring has wrapped) whose update saw both rollouts
C2_Witness ==
    /\ config.variant = "ga"
    /\ nsteps = 2
    /\ trace.updated
    /\ Transition(Iter, "ec", 1, 1) \in BufferItems(trace.upd_rb)
    /\ Transition(Iter, "rl", 1, 1) \in BufferItems(trace.upd_rb)

\* a step is taken and its iteration number is within the warm-up
WarmupStep ==
    /\ metrics' # metrics
    /\ U32Le(metrics'.iterations, U32(config.warmup_iters))

C4_OriginRolloutGate ==
    (config.variant = "origin" /\ nsteps > 0) =>
        /\ Ran("rl_rollout") <=> U32Lt(U32(config.warmup_iters), metrics.iterations)
        /\ U32Le(metrics.iterations, U32(config.warmup_iters))
              => metrics.rl_sampled_timesteps = U32(0)
        /\ metrics.iterations = U32(config.warmup_iters + 1)
              => U32Lt(U32(0), metrics.rl_sampled_timesteps)

\* warmup_iters = 2, after iteration 3: the first RL rollout was counted
C4_Witness ==
    /\ config.variant = "origin"
    /\ config.warmup_iters = 2
    /\ metrics.iterations = U32(3)
    /\ Ran("rl_rollout")
    /\ U32Lt(U32(0), metrics.rl_sampled_timesteps)

OnCadence == U32Mod(metrics.iterations, config.rl_injection_interval) = 0

\* C5 (as stated): with rl_injection_interval = k, injection happens on every
\* iteration that is a multiple of k and on no other iteration.
C5_InjectionCadence ==
    (config.variant \in ERLVariants /\ nsteps > 0) =>
        (trace.inj.done <=> OnCadence)

\* C5 (amended): ERL-GA injects on exactly the multiples of k; ERL-Origin on
\* exactly the multiples of k that are > warmup_iters; ERL-ES injects on
\* every iteration, whatever k is.
C5_CadencePerVariant ==
    nsteps > 0 =>
        /\ config.variant = "ga" => (trace.inj.done <=> OnCadence)
        /\ config.variant = "origin" =>
              (trace.inj.done <=>
                  (OnCadence /\ U32Lt(U32(config.warmup_iters), metrics.iterations)))
        /\ config.variant = "es" => trace.inj.done

\* ERL-GA with k = 2: injection on iteration 2
C5_Witness ==
    /\ config.variant = "ga"
    /\ config.rl_injection_interval = 2
    /\ metrics.iterations = U32(2)
    /\ trace.inj.done
    /\ Ran("ec_tell_external")

WorstSlots == {trace.inj.worst[j] : j \in 1 .. Len(trace.inj.worst)}

\* C6: on an ERL-Origin injection the members overwritten are exactly the
\* num_rl_agents lowest-fitness members of the population the EC state holds
\* at injection time, each replaced by a distinct current RL actor; every
\* other member and the population size are unchanged.
C6_OverwritesLowest ==
    (config.variant = "origin" /\ trace.inj.done) =>
        /\ Cardinality(WorstSlots) = num_rl_agents
        /\ {trace.inj.pop_at[i] : i \in WorstSlots}
              = {trace.inj.evaluated[i] : i \in WorstSlots}
        /\ {trace.inj.pop_after[i] : i \in WorstSlots}
              = {trace.inj.rl[j] : j \in 1 .. num_rl_agents}
        /\ Len(trace.inj.pop_after) = pop_size
        /\ \A i \in (1 .. pop_size) \ WorstSlots :
              trace.inj.pop_after[i] = trace.inj.pop_at[i]

\* C7: iterations grows by exactly 1 per step, sampled_timesteps strictly
\* increases from one step to the next, sampled_episodes and
\* rl_sampled_timesteps never decrease (the counters are uint32).
C7_MonotonicCounters ==
    [][metrics' # metrics =>
        /\ metrics'.iterations = U32Plus(metrics.iterations, U32(1))
        /\ U32Lt(metrics.iterations, metrics'.iterations)
        /\ U32Lt(metrics.sampled_timesteps, metrics'.sampled_timesteps)
        /\ U32Le(metrics.sampled_episodes, metrics'.sampled_episodes)
        /\ U32Le(metrics.rl_sampled_timesteps, metrics'.rl_sampled_timesteps)]_vars

-----------------------------------------------------------------------------
(* Properties of the rollout insertion                                     *)

\* the length of the episode of column i: its first timestep with done set
TrueLength(i) ==
    CHOOSE t \in 1 .. Horizon :
        ins.dones[t][i] = 1 /\ \A u \in 1 .. (t - 1) : ins.dones[u][i] = 0

\* the first L[i] timesteps of every column of the rollout last inserted
ValidItems ==
    {Transition(ins.count, "ec", x[1], x[2]) :
        x \in {y \in (1 .. Horizon) \X (1 .. (pop_size * num_envs)) :
                 y[1] <= TrueLength(y[2])}}

SumOfLengths == SumSeq([i \in 1 .. (pop_size * num_envs) |-> TrueLength(i)])

WrittenSlots ==
    {(ins.before.current_index + k) % replay_buffer_capacity :
        k \in 0 .. (SumOfLengths - 1)}

\* C8: inserting a population rollout with episode lengths L writes exactly
\* sum(L) transitions, the first L[p, e] timesteps of each column and nothing
\* after an episode's end, with the prefix concatenation of ERL-Origin and
\* with the shifted-dones mask of CEMRL-OpenES alike.
C8_NoPadding ==
    ins.count > 0 =>
        /\ ins.rb.buffer_size =
              Min(ins.before.buffer_size + SumOfLengths, replay_buffer_capacity)
        /\ ins.rb.current_index =
              (ins.before.current_index + SumOfLengths) % replay_buffer_capacity
        /\ Cardinality(WrittenSlots) = SumOfLengths
        /\ {ins.rb.data[k] : k \in WrittenSlots} = ValidItems
        /\ \A k \in (0 .. (replay_buffer_capacity - 1)) \ WrittenSlots :
              ins.rb.data[k] = ins.before.data[k]

\* a second masked insert with a one-step episode, wrapping around the ring
C8_Witness ==
    /\ ins.mode = "cemrl"
    /\ ins.count = 2
    /\ TrueLength(1) = 1
    /\ SumOfLengths < Horizon * pop_size * num_envs
    /\ ins.rb.current_index < ins.before.current_index

-----------------------------------------------------------------------------
(* Properties of the environment wrappers                                  *)

\* the state of lane i of a batched EnvState
LaneOf(st, i) ==
    [obs |-> st.obs[i], reward |-> st.reward[i], done |-> st.done[i],
     termination |-> st.info.termination[i], truncation |-> st.info.truncation[i],
     last_obs |-> st.info.last_obs[i], episode_return |-> st.info.episode_return[i]]

\* C9: with autoreset DISABLED, once done is set every later step, for any
\* action, returns its input state unchanged in every field.
C9_DisabledNoOp ==
    /\ (env_kind = "disabled" /\ env_hist.acted /\ env_hist.prev.done = 1)
          => env = env_hist.prev
    /\ (env_kind = "envpool" /\ env_hist.acted) =>
          \A i \in Lanes :
              env_hist.prev.done[i] = 1 => LaneOf(env, i) = LaneOf(env_hist.prev, i)

\* a step with action 1 on an env that was truncated at the episode length
C9_Witness ==
    /\ env_kind = "disabled"
    /\ env_hist.acted
    /\ env_hist.action = 1
    /\ env_hist.prev.done = 1
    /\ env_hist.prev.info.truncation = 1
    /\ env.info.steps = max_episode_steps

\* the observation the wrapped env produced in the last step
TrueObs ==
    Obs(env_hist.prev.env_state.ep, env_hist.prev.env_state.t + 1, env_hist.action)

\* the env is at the start of an episode begun with a key not used before
FreshlyReset ==
    /\ env.env_state.t = 0
    /\ env.obs = Obs(env.env_state.ep, 0, 0 - 1)
    /\ env_hist.resets # <<>>
    /\ env_hist.resets[Len(env_hist.resets)] = env.env_state.ep
    /\ \A m \in 1 .. (Len(env_hist.resets) - 1) : env_hist.resets[m] # env.env_state.ep

\* C10 (as stated): with autoreset NORMAL, on the step after done the env is
\* reset with a fresh key, the obs returned is the new episode's initial
\* observation and info.ori_obs is the terminal observation of the previous
\* episode.
C10_ResetOnStepAfterDone ==
    (env_kind = "normal" /\ env_hist.acted /\ env_hist.prev.done = 1) =>
        /\ FreshlyReset
        /\ env.info.ori_obs = env_hist.prev.info.ori_obs

\* C10 (amended): with autoreset NORMAL the reset happens inside the step
\* that sets done: that step returns done = 1, the initial observation of a
\* new episode begun with a fresh key, and info.ori_obs = the terminal
\* observation of the episode just ended; a step that does not set done
\* resets nothing and returns obs = info.ori_obs.
C10_ResetOnDoneStep ==
    (env_kind = "normal" /\ env_hist.acted) =>
        /\ env.info.ori_obs = TrueObs
        /\ env.done = 1 => (FreshlyReset /\ env.obs # TrueObs)
        /\ env.done = 0 =>
              /\ env.obs = TrueObs
              /\ env.env_state.ep = env_hist.prev.env_state.ep
              /\ env.internal = env_hist.prev.internal

\* the second automatic reset of a lane, after a truncated episode
C10_Witness ==
    /\ env_kind = "normal"
    /\ env_hist.acted
    /\ env.done = 1
    /\ env.info.truncation = 1
    /\ Len(env_hist.resets) = 3
    /\ env.obs = Obs(env.env_state.ep, 0, 0 - 1)

\* the state the FAST wrapper captured at the first reset
FirstReset == FastVmapAutoResetWrapper_reset(env_hist.resets[1])

\* C11: with autoreset FAST, a step that ends an episode returns exactly the
\* env_state and obs captured at the first reset, the captured state is the
\* same after every step, and a step that does not end the episode returns
\* the stepped env_state and obs.
C11_FastReset ==
    (env_kind = "fast" /\ env_hist.acted) =>
        /\ env.internal.first_env_state = FirstReset.env_state
        /\ env.internal.first_obs = FirstReset.obs
        /\ env.internal = env_hist.prev.internal
        /\ env.done = 1 =>
              /\ env.env_state = FirstReset.env_state
              /\ env.obs = FirstReset.obs
        /\ env.done = 0 =>
              /\ env.env_state = [ep |-> env_hist.prev.env_state.ep,
                                  t |-> env_hist.prev.env_state.t + 1]
              /\ env.obs = TrueObs

\* the second episode boundary of a FAST lane, reached by truncation
C11_Witness ==
    /\ env_kind = "fast"
    /\ env_hist.acted
    /\ env.done = 1
    /\ env.info.truncation = 1
    /\ Len(env_hist.resets) = 3
    /\ env.env_state = FirstReset.env_state
    /\ env.info.ori_obs # env.obs

\* the last step went through EpisodeWrapper._step
EpisodeStepped ==
    /\ env_hist.acted
    /\ \/ env_kind \in {"normal", "fast"}
       \/ env_kind = "disabled" /\ env_hist.prev.done = 0

\* C12: after every EpisodeWrapper step termination and truncation are never
\* both 1; truncation is 1 exactly when the step counter has reached
\* episode_length and the wrapped env did not terminate on that step; done is
\* 1 exactly when termination or truncation is 1; and 1 <= steps <=
\* episode_length, the counter restarting from 1 on the step after a done and
\* growing by one otherwise.
C12_EpisodeFlags ==
    EpisodeStepped =>
        /\ ~(env.info.termination = 1 /\ env.info.truncation = 1)
        /\ env.info.truncation = 1 <=>
              (env.info.steps >= max_episode_steps /\ env.info.termination = 0)
        /\ env.done = 1 <=> (env.info.termination = 1 \/ env.info.truncation = 1)
        /\ env.info.steps >= 1
        /\ env.info.steps <= max_episode_steps
        /\ env.info.steps = IF env_hist.prev.done = 1 THEN 1
                            ELSE env_hist.prev.info.steps + 1

\* the wrapped env terminates exactly at the step limit, in an episode that
\* began after an earlier done
C12_Witness ==
    /\ env_kind = "normal"
    /\ EpisodeStepped
    /\ Len(env_hist.resets) = 3
    /\ env.info.steps = max_episode_steps
    /\ env.info.termination = 1
    /\ env.info.truncation = 0
    /\ env.done = 1

-----------------------------------------------------------------------------
(* Properties of learn and evaluate                                        *)

\* C13: evaluate never writes to the replay buffer, the EC optimizer state,
\* the RL optimizer state, the agent parameters or the workflow metrics: the
\* state it returns differs from its input only in the PRNG key.
C13_EvaluateFrame ==
    [][(learn.pc = "eval" /\ learn'.evals = learn.evals + 1
            /\ config.variant \in ERLVariants) =>
          /\ replay_buffer_state' = replay_buffer_state
          /\ ec_opt_state' = ec_opt_state
          /\ opt_state' = opt_state
          /\ agent_state' = agent_state
          /\ metrics' = metrics
          /\ key' # key]_vars

\* ERL-ES has evaluated twice, after steps that updated the actors and
\* filled the buffer, and the population mean was rolled out
C13_Witness ==
    /\ config.variant = "es"
    /\ learn.pc = "save"
    /\ learn.evals = 2
    /\ learn.eval_metrics.pop_center = ec_opt_state.mean
    /\ learn.eval_metrics.rl = agent_state.params.actor_params
    /\ replay_buffer_state.buffer_size > 0
    /\ ActorVersion(agent_state) > 0

\* C14: whether a checkpoint contains the replay buffer is controlled by
\* save_replay_buffer, in every workflow's learn loop: when it is false the
\* state written by the checkpoint save has the replay-buffer state stripped,
\* when it is true the saved state includes it.
C14_CheckpointBuffer ==
    learn.saves > 0 =>
        /\ ~config.save_replay_buffer =>
              learn.saved = skip_replay_buffer_state(learn.saved)
        /\ config.save_replay_buffer =>
              learn.saved.replay_buffer_state = replay_buffer_state

-----------------------------------------------------------------------------
(* Properties of build and setup                                           *)

\* the workflow has been set up with a random pre-fill and has not stepped
PrefilledSetup ==
    /\ learn.pc = "ready"
    /\ nsteps = 0
    /\ config.random_timesteps > 0

-----------------------------------------------------------------------------
(* Properties of the RL update                                             *)

\* C16: an RL update requested while the replay buffer holds fewer than
\* min_sample_timesteps (= batch_size) transitions is skipped for that
\* iteration: agent_state and opt_state are unchanged and the metrics record
\* that no update was made.
C16_SkipOnSmallBuffer ==
    [][(nsteps' = nsteps + 1 /\ trace'.updated
            /\ trace'.upd_rb.buffer_size < batch_size) =>
          /\ agent_state' = agent_state
          /\ opt_state' = opt_state
          /\ train_metrics'.num_updates_per_iter = 0]_vars

\* C17: soft_target_update(target, source, tau) returns, leaf by leaf,
\* tau * source + (1 - tau) * target (leaves finite): with tau = 0 the result
\* equals the prior target parameters and with tau = 1 it equals the source
\* parameters, for every parameter tree.
C17_SoftTargetUpdate ==
    (call.op = "soft_target_update" /\ call.n > 0) =>
        /\ TauUnit * call.target.w =
              call.tau * call.source.w + (TauUnit - call.tau) * call.prior.w
        /\ TauUnit * call.target.layer.b =
              call.tau * call.source.layer.b + (TauUnit - call.tau) * call.prior.layer.b
        /\ call.tau = 0 => call.target = call.prior
        /\ call.tau = TauUnit => call.target = call.source

\* a Polyak update with tau = 0 of a target that differs from the source in
\* every leaf
C17_Witness ==
    /\ call.op = "soft_target_update"
    /\ call.n = 1
    /\ call.tau = 0
    /\ call.source.w # call.prior.w
    /\ call.source.layer.b # call.prior.layer.b
    /\ call.target = call.prior

\* C18: in ERL-GA, on every injection iteration tell_external is invoked with
\* the RL actors in the external slot and with a fitness vector of length
\* pop_size + num_rl_agents, the EC fitnesses followed by the fitnesses of the
\* RL actors; on every other iteration the ordinary tell is invoked with the
\* pop_size EC fitnesses.
C18_TellExternalFitnesses ==
    (config.variant = "ga" /\ nsteps > 0) =>
        IF OnCadence
        THEN /\ Ran("ec_tell_external")
             /\ ~Ran("ec_tell")
             /\ trace.told.external = trace.inj.rl
             /\ Len(trace.told.external) = num_rl_agents
             /\ Len(trace.told.fitnesses) = pop_size + num_rl_agents
             /\ trace.told.fitnesses = trace.inj.fitnesses \o trace.rl_fitnesses
        ELSE /\ Ran("ec_tell")
             /\ ~Ran("ec_tell_external")
             /\ Len(trace.told.fitnesses) = pop_size

\* C19: in every ERL-ES iteration, at the moment the EC optimizer is told, the
\* noise has exactly pop_size + num_rl_agents rows and the fitness vector has
\* the same length; row pop_size + j of the noise is (RL actor j - mean), and
\* entry pop_size + j of the fitness is the return of that same version of RL
\* actor j: the parameters that were rolled out in this iteration.
C19_InjectedRows ==
    [][(config.variant = "es" /\ nsteps' = nsteps + 1) =>
          /\ \E n \in 1 .. Len(trace'.log) : trace'.log[n] = "ec_tell"
          /\ Len(trace'.told.noise) = pop_size + num_rl_agents
          /\ Len(trace'.told.fitnesses) = pop_size + num_rl_agents
          /\ trace'.rl_rolled = agent_state.params.actor_params
          /\ \A i \in 1 .. pop_size :
                trace'.told.noise[i] = P("noise", ToNat(metrics'.iterations), i, 0)
          /\ \A j \in 1 .. num_rl_agents :
                /\ trace'.told.noise[pop_size + j] =
                      P("diff", j, trace'.rl_rolled[j].b, MeanGen(ec_opt_state))
                /\ trace'.told.fitnesses[pop_size + j] = trace'.rl_fitnesses[j]]_vars

\* the second ERL-ES iteration: the rows appended are those of the actors
\* after one update, around the mean of the first tell, and the RL returns
\* told are not all equal
C19_Witness ==
    /\ config.variant = "es"
    /\ nsteps = 2
    /\ Ran("ec_tell")
    /\ Len(trace.told.noise) = pop_size + num_rl_agents
    /\ trace.told.noise[pop_size + 1].kind = "diff"
    /\ trace.told.noise[pop_size + 1].b = trace.rl_rolled[1].b
    /\ trace.rl_rolled[1].b > 0
    /\ trace.told.fitnesses[pop_size + 1] # trace.told.fitnesses[pop_size + 2]

\* the inconsistent configurations: more elites than members; fewer elites
\* than RL agents (ERL-GA); mirrored sampling of an odd population
Inconsistent(cfg) ==
    \/ cfg.variant # "cemrl" /\ cfg.num_elites > cfg.pop_size
    \/ cfg.variant = "ga" /\ cfg.num_elites < cfg.num_rl_agents
    \/ cfg.mirror_sampling /\ cfg.pop_size % 2 = 1

BudgetIters(cfg) ==
    LET per_iter == IF cfg.variant = "ga"
                    THEN episodes_for_fitness * pop_size + rollout_episodes * num_rl_agents
                    ELSE episodes_for_fitness * pop_size
    IN  (cfg.total_episodes + per_iter - 1) \div per_iter

\* C21: learn terminates after a finite number of steps bounded only by the
\* training budget: started from a fresh state it runs exactly the number of
\* iterations computed from total_episodes and returns with
\* sampled_episodes >= total_episodes, and it never runs a step once the
\* budget's iteration count is reached.
C21_LearnTerminates ==
    /\ <>[](learn.pc = "done")
    /\ [](learn.pc = "done" =>
            /\ nsteps = BudgetIters(config)
            /\ metrics.iterations = U32(BudgetIters(config))
            /\ ToNat(metrics.sampled_episodes) >= config.total_episodes)
    /\ [][nsteps' = nsteps + 1 => nsteps < BudgetIters(config)]_vars

\* ERL-GA with a budget of 6 episodes returned after 2 iterations of 5 episodes
C21_Witness ==
    /\ learn.pc = "done"
    /\ config.variant = "ga"
    /\ config.total_episodes = 6
    /\ nsteps = 2
    /\ metrics.sampled_episodes = U32(10)

\* the shared agent_state as the EC rollout of the last step left it; the
\* rollout comes before the RL update of the step, except in CEMRL-OpenES,
\* where it follows the update and nothing after it writes the agent state
SharedAtRollout == trace'.agent_after_ec

RolloutLeftShared ==
    SharedAtRollout = IF config.variant = "cemrl" THEN agent_state' ELSE agent_state

\* C22 (as stated): the population agent state used for the EC rollout is the
\* shared agent_state with only the actor parameters replaced by those of the
\* population: its critic parameters and obs-preprocessor state are those of
\* the shared agent_state, and the shared agent_state is not modified by the
\* EC rollout.
C22_OnlyActorReplaced ==
    [][nsteps' = nsteps + 1 =>
          /\ trace'.pop_agent_state =
                [SharedAtRollout EXCEPT !.params.actor_params = trace'.pop_actor_params]
          /\ RolloutLeftShared]_vars

\* C22 (amended): in ERL-Origin the population agent state has the population's
\* parameters as actor and as target actor and no critic parameters; in the
\* other workflows only the actor parameters are replaced; in every workflow
\* the obs-preprocessor state is that of the shared agent_state, and the
\* shared agent_state is not modified by the EC rollout.
C22_PopAgentState ==
    [][nsteps' = nsteps + 1 =>
          LET pas == trace'.pop_agent_state
              pop == trace'.pop_actor_params
          IN  /\ Len(pop) = pop_size
              /\ pas.params.actor_params = pop
              /\ pas.obs_preprocessor_state = SharedAtRollout.obs_preprocessor_state
              /\ IF config.variant = "origin"
                 THEN /\ pas.params.target_actor_params = pop
                      /\ pas.params.critic_params < 0
                      /\ pas.params.target_critic_params < 0
                 ELSE /\ pas.params.target_actor_params =
                            SharedAtRollout.params.target_actor_params
                      /\ pas.params.critic_params = SharedAtRollout.params.critic_params
                      /\ pas.params.target_critic_params =
                            SharedAtRollout.params.target_critic_params
              /\ RolloutLeftShared]_vars

\* an ERL-Origin step after the critic of the shared agent was updated: the
\* population agent state of that step has no critic
C22_Witness ==
    /\ config.variant = "origin"
    /\ nsteps >= 2
    /\ trace.agent_after_ec.params.critic_params > 0
    /\ trace.pop_agent_state.params.critic_params < 0
    /\ trace.pop_agent_state.params.actor_params = trace.pop_actor_params
    /\ trace.pop_agent_state.params.target_actor_params = trace.pop_actor_params

CeilDiv(n, d) == (n + d - 1) \div d

CountIn(log, phs) == Cardinality({n \in 1 .. Len(log) : log[n] \in phs})

Tells == {"ec_tell", "ec_tell_external"}

\* the order of a step's log: every a before every b
LogBefore(log, as, bs) ==
    \A m, n \in 1 .. Len(log) : (log[m] \in as /\ log[n] \in bs) => m < n

\* what a step does between obtaining its candidates and telling: the
\* candidates are those the EC state gives in this iteration, they are the
\* ones rolled out, exactly one tell (or tell_external) follows the rollout,
\* and the fitnesses told for the pop_size candidates are those of that rollout
OneTellOfCandidates ==
    /\ CountIn(trace'.log, Tells) = 1
    /\ CountIn(trace'.log, {"ec_rollout"}) = 1
    /\ LogBefore(trace'.log, {"ec_rollout"}, Tells)
    /\ trace'.pop_actor_params =
          IF config.variant \in {"origin", "ga"} THEN ec_opt_state.pop
          ELSE es_candidates(ec_opt_state, ToNat(metrics'.iterations))
    /\ trace'.pop_agent_state.params.actor_params = trace'.pop_actor_params
    /\ Len(trace'.ec_fitnesses) = pop_size
    /\ Prefix(trace'.told.fitnesses, pop_size) = trace'.ec_fitnesses

C27_NoFurtherIterations ==
    [][(learn.pc = "start" /\ learn'.pc # "start"
            /\ ToNat(metrics.sampled_episodes) >= config.total_episodes) =>
          /\ learn'.pc = "done"
          /\ learn'.stop = learn'.i
          /\ learn'.i = metrics.iterations]_vars

\* the key is in the split tree of the root key handed to setup
DerivedFromRoot(k) == \A i \in 1 .. Len(k) : k[i] >= 0

\* C28: every PRNG key is consumed at most once: within setup, step and the
\* RL update loop, a key that has been split is never split a second time
\* nor used directly as a randomness source, and all randomness derives
\* from the root key carried in state.key.
C28_KeysConsumedOnce ==
    call.op = "keys" =>
        /\ \A m, n \in 1 .. Len(call.uses) :
              m # n => call.uses[m].key # call.uses[n].key
        /\ \A n \in 1 .. Len(call.uses) : DerivedFromRoot(call.uses[n].key)

\* the second run of a pair stands after an iteration of its loop, at an
\* iteration count the first run stood at too
AfterSameIterations ==
    /\ call.op = "pair"
    /\ call.run = 2
    /\ learn.pc \in {"step", "done"}
    /\ nsteps >= 1

\* the state and the evaluation count of the first run of the pair after as
\* many iterations as the second run has made
FirstRun == call.states[nsteps + 1]

\* the state without its PRNG key
TrainingPart(state) == [state EXCEPT !.key = <<>>]

C30_AutoresetFlag ==
    (env_kind = "envpool_autoreset" /\ env_hist.acted) =>
        env.info.autoreset = env_hist.prev.done

====
